---------------------------- MODULE Spec2Model ----------------------------
(***************************************************************************)
(* EV savings calculator: the /calculate handler of the Express server,    *)
(* the offline calculateSavings of calculationUtils.ts, and the present-   *)
(* value primitives both are built from.                                   *)
(*                                                                         *)
(* Numbers.  JavaScript numbers are modelled as fixed-point decimals:      *)
(* amounts (money, litres, kWh, kg, km) in thousandths (Unit), growth and  *)
(* discount factors in ten-thousandths (RateUnit).  Every multiplication   *)
(* and division rounds its result to the nearest grid point, as IEEE       *)
(* arithmetic rounds to the nearest double.  All intermediate products     *)
(* are split so that they stay below 2^31.  A request's distance is an     *)
(* amount: the handler reads it with parseFloat.                           *)
(***************************************************************************)
EXTENDS Integers, Sequences, FiniteSets, TLC

(***************************************************************************)
(* Bounds of the model.                                                    *)
(***************************************************************************)
MaxDistanceSteps == 4
MaxLoanTermYears == 5
MaxCashFlowSteps == 3
MaxRateTenths == 2
MaxPeriods == 4
MaxYearsBeyondTable == 3
MaxInvocations == 3
MaxComparisonTermYears == 1

(***************************************************************************)
(* Fixed-point arithmetic.                                                 *)
(***************************************************************************)
CentsPerUnit == 100
Unit == 10 * CentsPerUnit
RateUnit == 10 * Unit
CentStep == Unit \div CentsPerUnit

Abs(x) == IF x < 0 THEN -x ELSE x

Sgn(x) == IF x < 0 THEN -1 ELSE 1

Min(a, b) == IF a < b THEN a ELSE b

\* round(a * b / c) for a, b >= 0 and 0 < c <= 46340, ties upwards
MulDivNat(a, b, c) ==
  LET qa == a \div c
      ra == a % c
      qb == b \div c
      rb == b % c
  IN  qa * b + ra * qb + ((ra * rb + c \div 2) \div c)

\* round(a * b / c), ties away from zero
MulDiv(a, b, c) ==
  IF a >= 0 /\ b >= 0 /\ c > 0
  THEN MulDivNat(a, b, c)
  ELSE Sgn(a) * Sgn(b) * Sgn(c) * MulDivNat(Abs(a), Abs(b), Abs(c))

\* amount * amount
Mul(x, y) == MulDiv(x, y, Unit)

\* amount / amount
Div(x, y) == MulDiv(x, Unit, y)

\* amount * factor
MulRate(x, f) == MulDiv(x, f, RateUnit)

\* amount / factor
DivRate(x, f) == MulDiv(x, RateUnit, f)

\* power * f^n for a factor f and an integer n >= 0, by repeated
\* multiplication
RECURSIVE PowFrom(_, _, _)
PowFrom(power, f, n) ==
  IF n = 0 \/ power = 0 THEN power
  ELSE PowFrom(MulDiv(power, f, RateUnit), f, n - 1)

\* f^n for a factor f and an integer n >= 0
PowInt(f, n) == PowFrom(RateUnit, f, n)

\* the largest factor y with y^12 <= f: the twelfth root of f >= 1
Root12(f) == CHOOSE y \in RateUnit..f : PowInt(y, 12) <= f /\ PowInt(y + 1, 12) > f

\* Math.round(x * 100) / 100
MathRound2(x) == ((x + CentStep \div 2) \div CentStep) * CentStep

\* Number(x.toFixed(2))
ToFixed2(x) == Sgn(x) * (((Abs(x) + CentStep \div 2) \div CentStep) * CentStep)

(***************************************************************************)
(* Data & constants (identical in the server and in calculationUtils.ts    *)
(* except FUEL_INFLATION).                                                 *)
(***************************************************************************)
FUEL_PRICES == [diesel |-> 19320, petrol95 |-> 21620, petrol93 |-> 21510]

FUEL_CONSUMPTION == [diesel |-> 8, petrol95 |-> 9, petrol93 |-> 9]

BASE_EBUCKS == <<150, 300, 600, 1500, 3000>>

INSURANCE_RATES == <<100, 200, 400, 800, 2000>>

FINANCING_RATES == <<100, 200, 400, 800, 2000>>

MONTHLY_FUEL_SPEND_CAP == 3000 * Unit

\* server: 9% annual inflation
FUEL_INFLATION == 900

\* calculationUtils.ts: 7.5% annual inflation
utils_FUEL_INFLATION == 750

ELECTRICITY_INFLATION == 1062

DISCOUNT_RATE == 1095

DEFAULT_YEARS == 5

CARBON_TAX ==
  [y \in 2025..2032 |->
     CASE y = 2025 -> 236 [] y = 2026 -> 308 [] y = 2027 -> 347
       [] y = 2028 -> 390 [] y = 2029 -> 440 [] OTHER -> 495]

CO2_PER_LITRE == 2350

EV_CONSUMPTION == 189

STANDARD_ESKOM_RATE == 3700

PREMIUM_ESKOM_RATE == 7000

ESKOM_RATE == MulDiv(STANDARD_ESKOM_RATE, 9, 10) + MulDiv(PREMIUM_ESKOM_RATE, 1, 10)

CO2_GRID == 900

CO2_SOLAR == 90

(***************************************************************************)
(* Math.pow.  The factors the calculator raises to a power are tabulated   *)
(* once; any other factor is computed on the spot.                         *)
(***************************************************************************)
MaxExponent == 2 + MaxLoanTermYears

TabulatedFactors ==
  {RateUnit + FUEL_INFLATION, RateUnit + utils_FUEL_INFLATION,
   RateUnit + ELECTRICITY_INFLATION, RateUnit + DISCOUNT_RATE}

PowTable == [f \in TabulatedFactors |-> [n \in 0..MaxExponent |-> PowInt(f, n)]]

\* Math.pow(f, n), n an integer >= 0
Pow(f, n) ==
  IF f \in TabulatedFactors /\ n \in 0..MaxExponent
  THEN PowTable[f][n]
  ELSE PowInt(f, n)

\* f^(j/12) for j in 0..11: the twelfth root of f^j
FractionTable ==
  [f \in TabulatedFactors |-> [j \in 0..11 |-> Root12(PowInt(f, j))]]

\* Math.pow(f, month / 12) for a tabulated factor f
PowMonths(f, month) ==
  MulDiv(Pow(f, month \div 12), FractionTable[f][month % 12], RateUnit)

(***************************************************************************)
(* Helper functions.                                                       *)
(***************************************************************************)
\* |growthRate - discountRate| < 1e-9: on the rate grid (step 1e-4) the
\* difference is below 1e-9 exactly when it is zero
NearlyEqual(growthRate, discountRate) == Abs(growthRate - discountRate) = 0

presentValueOfGrowingAnnuity(cashFlow, growthRate, discountRate, periods) ==
  IF NearlyEqual(growthRate, discountRate)
  THEN DivRate(cashFlow * periods, Pow(RateUnit + discountRate, periods))
  ELSE DivRate(
         MulRate(cashFlow,
                 MulDiv(Pow(RateUnit + growthRate, periods)
                          - Pow(RateUnit + discountRate, periods),
                        RateUnit,
                        growthRate - discountRate)),
         Pow(RateUnit + discountRate, periods))

presentValue(cashFlow, discountRate, yearIndex) ==
  DivRate(cashFlow, Pow(RateUnit + discountRate, yearIndex))


(***************************************************************************)
(* Requests.                                                               *)
(***************************************************************************)
\* the UI's initial inputs
DefaultInputs ==
  [distance |-> 1500 * Unit, ebucksLevel |-> 3, fuelType |-> "petrol95",
   hasInsurance |-> TRUE, hasFinancing |-> TRUE, hasSolar |-> FALSE,
   hasNoBank |-> FALSE, loanTermYears |-> 5]

\* the distances of the model: multiples of half the UI's initial distance,
\* a distance of 0.2 km, and the initial distance plus 0.01 km
DistanceStep == DefaultInputs.distance \div 2

SmallDistance == Unit \div 5

NudgedDistance == DefaultInputs.distance + CentStep

Distances ==
  {k * DistanceStep : k \in 0..MaxDistanceSteps} \cup {SmallDistance, NudgedDistance}

EbucksLevels == 1..5

\* "other" stands for any fuel type outside the tables
FuelTypes == {"diesel", "petrol95", "petrol93", "other"}

\* 0 stands for a missing or zero loanTermYears
LoanTerms == 0..MaxLoanTermYears

\* the UI's initial results
ZeroResults ==
  [presentValueEbucks |-> 0, carbonTaxSavings |-> 0, fuelSpendSavings |-> 0,
   upfrontSavings |-> 0, totalSavings |-> 0,
   standardUpfrontBenefits |->
     [presentValueEbucks |-> 0, carbonTaxSavings |-> 0, upfrontSavings |-> 0],
   co2Emissions |-> [ice |-> 0, ev |-> 0, monthlySavings |-> 0, yearlySavings |-> 0]]

(***************************************************************************)
(* Table lookups with their fallbacks.                                     *)
(***************************************************************************)
\* FUEL_CONSUMPTION[fuelType] || 9.0
ConsumptionRate(fuelType) ==
  IF fuelType \in DOMAIN FUEL_CONSUMPTION THEN FUEL_CONSUMPTION[fuelType] ELSE 9

\* a lookup that falls back to the diesel price
FuelPrice_dieselDefault(fuelType) ==
  IF fuelType \in DOMAIN FUEL_PRICES THEN FUEL_PRICES[fuelType] ELSE 19320

\* FUEL_PRICES[fuelType] || 21.62
FuelPrice(fuelType) ==
  IF fuelType \in DOMAIN FUEL_PRICES THEN FUEL_PRICES[fuelType] ELSE 21620

\* TABLE[level] || 0.0
LevelRate(table, level) == IF level \in DOMAIN table THEN table[level] ELSE 0

MaxOf(S) == CHOOSE m \in S : \A x \in S : x <= m

\* a lookup without the fallback: no rate (0) for a year outside the table
CarbonTaxRate_withoutFallback(year) ==
  IF year \in DOMAIN CARBON_TAX THEN CARBON_TAX[year] ELSE 0

\* CARBON_TAX[year] || CARBON_TAX[Math.max(...Object.keys(CARBON_TAX).map(Number))]
CarbonTaxRate(year) ==
  IF year \in DOMAIN CARBON_TAX /\ CARBON_TAX[year] # 0
  THEN CARBON_TAX[year]
  ELSE CARBON_TAX[MaxOf(DOMAIN CARBON_TAX)]

(***************************************************************************)
(* Server: calculateMonthlyCO2 and calculateStandardUpfrontBenefits.       *)
(***************************************************************************)
MonthlyLitres(distance, fuelType) ==
  MulDiv(ConsumptionRate(fuelType) * distance, 1, 100)

\* a calculateMonthlyCO2 that reads the initial distance, not its argument
calculateMonthlyCO2_ofInitialDistance(distance, fuelType) ==
  Mul(MonthlyLitres(DefaultInputs.distance, fuelType), CO2_PER_LITRE)

calculateMonthlyCO2(distance, fuelType) ==
  Mul(MonthlyLitres(distance, fuelType), CO2_PER_LITRE)

\* a carbon-tax loop whose first year is 2026
RECURSIVE CarbonTaxLoop_from2026(_, _)
CarbonTaxLoop_from2026(annualTonnesCo2, i) ==
  IF i < 5
  THEN presentValue(annualTonnesCo2 * CarbonTaxRate(2026 + i), DISCOUNT_RATE, i + 1)
         + CarbonTaxLoop_from2026(annualTonnesCo2, i + 1)
  ELSE 0

\* the five-year carbon-tax loop: sum over i = from..4
RECURSIVE CarbonTaxLoop(_, _)
CarbonTaxLoop(annualTonnesCo2, i) ==
  IF i < 5
  THEN presentValue(annualTonnesCo2 * CarbonTaxRate(2025 + i), DISCOUNT_RATE, i + 1)
         + CarbonTaxLoop(annualTonnesCo2, i + 1)
  ELSE 0

StandardUpfrontBenefits(fuelInflation, distance, fuelType, ebucksLevel) ==
  LET monthlyLitres == MonthlyLitres(distance, fuelType)
      fuelPrice == FuelPrice(fuelType)
      monthlyFuelSpend == Mul(monthlyLitres, fuelPrice)
      totalRate == LevelRate(BASE_EBUCKS, ebucksLevel)
                     + LevelRate(INSURANCE_RATES, ebucksLevel)
                     + LevelRate(FINANCING_RATES, ebucksLevel)
      effectiveFuelSpend == Min(monthlyFuelSpend, MONTHLY_FUEL_SPEND_CAP)
      qualifyingLitres == Div(effectiveFuelSpend, fuelPrice)
      year1Ebucks == Mul(totalRate, qualifyingLitres) * 12
      annualTonnesCo2 == MulDiv(Mul(monthlyLitres * 12, CO2_PER_LITRE), 1, 1000)
      carbonTaxSavings == CarbonTaxLoop(annualTonnesCo2, 0)
      pvEbucks ==
        presentValueOfGrowingAnnuity(year1Ebucks, fuelInflation, DISCOUNT_RATE, 5)
      upfrontSavings == pvEbucks + carbonTaxSavings
  IN  [presentValueEbucks |-> MathRound2(pvEbucks),
       carbonTaxSavings |-> MathRound2(carbonTaxSavings),
       upfrontSavings |-> MathRound2(upfrontSavings)]

\* server: calculateStandardUpfrontBenefits(distance, fuelType, ebucksLevel = 4)
calculateStandardUpfrontBenefits(distance, fuelType, ebucksLevel) ==
  StandardUpfrontBenefits(FUEL_INFLATION, distance, fuelType, ebucksLevel)

\* calculationUtils.ts: the same function, with that file's FUEL_INFLATION
utils_calculateStandardUpfrontBenefits(distance, fuelType, ebucksLevel) ==
  StandardUpfrontBenefits(utils_FUEL_INFLATION, distance, fuelType, ebucksLevel)

(***************************************************************************)
(* Server: app.post('/calculate').  Each local of the handler is an        *)
(* operator on the parsed inputs p.                                        *)
(***************************************************************************)
\* the parse without the default of loanTermYears
ParseInputs_withoutDefaultTerm(body) ==
  [level |-> body.ebucksLevel,
   fuelType |-> body.fuelType,
   distanceMonthly |-> body.distance,
   hasInsurance |-> body.hasInsurance,
   hasFinancing |-> body.hasFinancing,
   hasSolar |-> body.hasSolar,
   hasNoBank |-> body.hasNoBank,
   loanTermYears |-> body.loanTermYears]

ParseInputs(body) ==
  [level |-> body.ebucksLevel,
   fuelType |-> body.fuelType,
   distanceMonthly |-> body.distance,
   hasInsurance |-> body.hasInsurance,
   hasFinancing |-> body.hasFinancing,
   hasSolar |-> body.hasSolar,
   hasNoBank |-> body.hasNoBank,
   loanTermYears |-> IF body.loanTermYears = 0 THEN DEFAULT_YEARS
                     ELSE body.loanTermYears]

monthlyLitres(p) == MonthlyLitres(p.distanceMonthly, p.fuelType)

monthlyFuelSpend(p) == Mul(monthlyLitres(p), FuelPrice(p.fuelType))

year1FuelCost(p) == monthlyFuelSpend(p) * 12

\* for (let i = 0; i < years; i++) {
\*   sum += presentValue(cost1 * Math.pow(1 + growthRate, i), discountRate, i + 1) }
\* (the handler's loop, with its two rates as parameters)
RECURSIVE YearByYearLoop(_, _, _, _, _)
YearByYearLoop(cost1, growthRate, discountRate, years, i) ==
  IF i < years
  THEN presentValue(MulRate(cost1, Pow(RateUnit + growthRate, i)), discountRate, i + 1)
         + YearByYearLoop(cost1, growthRate, discountRate, years, i + 1)
  ELSE 0

pvFuelCost(p) ==
  YearByYearLoop(year1FuelCost(p), FUEL_INFLATION, DISCOUNT_RATE, p.loanTermYears, 0)

annualEvCost(p) == Mul(Mul(p.distanceMonthly * 12, EV_CONSUMPTION), ESKOM_RATE)

\* Array.from({length: years}, (_, i) => presentValue(cost, DISCOUNT_RATE, i + 1))
\*   .reduce((a, b) => a + b, 0)
RECURSIVE LevelCostSum(_, _, _)
LevelCostSum(cost, years, i) ==
  IF i < years
  THEN presentValue(cost, DISCOUNT_RATE, i + 1) + LevelCostSum(cost, years, i + 1)
  ELSE 0

\* a pvEvCost that takes solar charging to be free
pvEvCost_solarFree(p) ==
  IF p.hasSolar THEN 0 ELSE LevelCostSum(annualEvCost(p), p.loanTermYears, 0)

pvEvCost(p) ==
  IF p.hasSolar
  THEN LevelCostSum(MulDiv(annualEvCost(p), 1, 10), p.loanTermYears, 0)
  ELSE LevelCostSum(annualEvCost(p), p.loanTermYears, 0)

fuelSpendSavings(p) == pvFuelCost(p) - pvEvCost(p)

\* a totalRate that forgets the two add-ons
totalRate_baseOnly(p) ==
  IF ~p.hasNoBank THEN LevelRate(BASE_EBUCKS, p.level) ELSE 0

\* a totalRate that adds the two add-ons whatever the flags are
totalRate_addOnsAlways(p) ==
  IF ~p.hasNoBank
  THEN LevelRate(BASE_EBUCKS, p.level) + LevelRate(INSURANCE_RATES, p.level)
         + LevelRate(FINANCING_RATES, p.level)
  ELSE 0

totalRate(p) ==
  LET baseRate == IF ~p.hasNoBank THEN LevelRate(BASE_EBUCKS, p.level) ELSE 0
      insuranceRate == IF ~p.hasNoBank /\ p.hasInsurance
                       THEN LevelRate(INSURANCE_RATES, p.level) ELSE 0
      financingRate == IF ~p.hasNoBank /\ p.hasFinancing
                       THEN LevelRate(FINANCING_RATES, p.level) ELSE 0
  IN  baseRate + insuranceRate + financingRate

\* a year1Ebucks on the raw spend, without the monthly cap
year1Ebucks_uncapped(p) ==
  Mul(totalRate(p), Div(monthlyFuelSpend(p), FuelPrice(p.fuelType))) * 12

\* a year1Ebucks on the part of the spend above the cap
year1Ebucks_onSpendAboveCap(p) ==
  LET excessFuelSpend == monthlyFuelSpend(p) - MONTHLY_FUEL_SPEND_CAP
      qualifyingLitres == Div(excessFuelSpend, FuelPrice(p.fuelType))
  IN  Mul(totalRate(p), qualifyingLitres) * 12

year1Ebucks(p) ==
  LET effectiveFuelSpend == Min(monthlyFuelSpend(p), MONTHLY_FUEL_SPEND_CAP)
      qualifyingLitres == Div(effectiveFuelSpend, FuelPrice(p.fuelType))
  IN  Mul(totalRate(p), qualifyingLitres) * 12

\* a pvEbucks taken over the loan term
pvEbucks_overLoanTerm(p) ==
  presentValueOfGrowingAnnuity(year1Ebucks(p), FUEL_INFLATION, DISCOUNT_RATE,
                               p.loanTermYears)

pvEbucks(p) ==
  presentValueOfGrowingAnnuity(year1Ebucks(p), FUEL_INFLATION, DISCOUNT_RATE, 5)

\* a carbonTaxSavings that skips the hasNoBank test
carbonTaxSavings_withoutBankTest(p) ==
  LET annualLitres == monthlyLitres(p) * 12
      annualTonnesCo2 == MulDiv(Mul(annualLitres, CO2_PER_LITRE), 1, 1000)
  IN  CarbonTaxLoop(annualTonnesCo2, 0)

carbonTaxSavings(p) ==
  IF ~p.hasNoBank
  THEN LET annualLitres == monthlyLitres(p) * 12
           annualTonnesCo2 == MulDiv(Mul(annualLitres, CO2_PER_LITRE), 1, 1000)
       IN  CarbonTaxLoop(annualTonnesCo2, 0)
  ELSE 0

\* an upfrontSavings that leaves the carbon tax out
upfrontSavings_rewardsOnly(pvEbucksValue, carbonTaxValue) == pvEbucksValue

upfrontSavings(pvEbucksValue, carbonTaxValue) == pvEbucksValue + carbonTaxValue

\* a totalSavings that leaves the fuel savings out
totalSavings_upfrontOnly(upfrontValue, loanTermSavings) == upfrontValue

totalSavings(upfrontValue, loanTermSavings) == upfrontValue + loanTermSavings

\* an evMonthlyEmissions that takes solar charging to emit nothing
evMonthlyEmissions_solarClean(p) ==
  IF p.hasSolar THEN 0 ELSE Mul(Mul(p.distanceMonthly, EV_CONSUMPTION), CO2_GRID)

\* a variant that leaves out the EV's consumption per km
evMonthlyEmissions_withoutConsumption(p) ==
  IF p.hasSolar
  THEN Mul(p.distanceMonthly, CO2_SOLAR)
  ELSE Mul(p.distanceMonthly, CO2_GRID)

evMonthlyEmissions(p) ==
  IF p.hasSolar
  THEN Mul(Mul(p.distanceMonthly, EV_CONSUMPTION), CO2_SOLAR)
  ELSE Mul(Mul(p.distanceMonthly, EV_CONSUMPTION), CO2_GRID)

co2Emissions(p) ==
  LET iceMonthlyEmissions == calculateMonthlyCO2(p.distanceMonthly, p.fuelType)
      monthlyCO2Savings == iceMonthlyEmissions - evMonthlyEmissions(p)
      yearlyCO2Savings == monthlyCO2Savings * 12
  IN  [ice |-> MathRound2(iceMonthlyEmissions),
       ev |-> MathRound2(evMonthlyEmissions(p)),
       monthlySavings |-> MathRound2(monthlyCO2Savings),
       yearlySavings |-> MathRound2(yearlyCO2Savings)]

\* a standardUpfrontBenefits computed at the caller's own level
standardUpfrontBenefits_atCallerLevel(p) ==
  calculateStandardUpfrontBenefits(p.distanceMonthly, p.fuelType, p.level)

\* const standardUpfrontBenefits = calculateStandardUpfrontBenefits(distanceMonthly,
\*   fuelType): the third parameter takes its default, 4
standardUpfrontBenefits(p) ==
  calculateStandardUpfrontBenefits(p.distanceMonthly, p.fuelType, 4)

\* the JSON body the handler answers with
CalculateHandler(body) ==
  LET p == ParseInputs(body)
      pvEbucksValue == pvEbucks(p)
      carbonTaxValue == carbonTaxSavings(p)
      loanTermSavings == fuelSpendSavings(p)
      upfrontValue == upfrontSavings(pvEbucksValue, carbonTaxValue)
  IN  [presentValueEbucks |-> MathRound2(pvEbucksValue),
       carbonTaxSavings |-> MathRound2(carbonTaxValue),
       fuelSpendSavings |-> MathRound2(loanTermSavings),
       upfrontSavings |-> MathRound2(upfrontValue),
       totalSavings |-> MathRound2(totalSavings(upfrontValue, loanTermSavings)),
       standardUpfrontBenefits |-> standardUpfrontBenefits(p),
       co2Emissions |-> co2Emissions(p)]

(***************************************************************************)
(* calculationUtils.ts: calculateSavings, the offline fallback.  Its        *)
(* sections 2 to 4 and 7 (EV cost, eBucks rates, carbon tax, emissions)    *)
(* are the server's text; the operators above model both.                  *)
(***************************************************************************)
utils_ParseInputs(body) ==
  [level |-> body.ebucksLevel,
   fuelType |-> body.fuelType,
   distanceMonthly |-> body.distance,
   hasInsurance |-> body.hasInsurance,
   hasFinancing |-> body.hasFinancing,
   hasSolar |-> body.hasSolar,
   hasNoBank |-> body.hasNoBank,
   loanTermYears |-> IF body.loanTermYears = 0 THEN DEFAULT_YEARS
                     ELSE body.loanTermYears]

\* sum over month = from..months-1 of monthlyBaseCost * (1 + inflation)^(month/12)
RECURSIVE CumulativeCostLoop(_, _, _, _)
CumulativeCostLoop(monthlyBaseCost, annualInflation, months, month) ==
  IF month < months
  THEN MulRate(monthlyBaseCost, PowMonths(RateUnit + annualInflation, month))
         + CumulativeCostLoop(monthlyBaseCost, annualInflation, months, month + 1)
  ELSE 0

calculateCumulativeCost(monthlyBaseCost, annualInflation, months) ==
  CumulativeCostLoop(monthlyBaseCost, annualInflation, months, 0)

utils_monthlyChargingCost(p) ==
  LET monthlyEvConsumption == Mul(p.distanceMonthly, EV_CONSUMPTION)
      baseMonthlyChargingCost == Mul(monthlyEvConsumption, ESKOM_RATE)
  IN  IF p.hasSolar THEN MulDiv(baseMonthlyChargingCost, 1, 10)
      ELSE baseMonthlyChargingCost

\* nominal cumulative costs over the loan term (not discounted)
utils_rawFuelSpendSavings(p) ==
  LET totalMonths == p.loanTermYears * 12
      cumFuel ==
        calculateCumulativeCost(monthlyFuelSpend(p), utils_FUEL_INFLATION, totalMonths)
      cumCharge ==
        calculateCumulativeCost(utils_monthlyChargingCost(p), ELECTRICITY_INFLATION,
                                totalMonths)
  IN  ToFixed2(cumFuel - cumCharge)

\* rawFuelSpendSavings reads four of the inputs only; it is tabulated over them
\* once, and computed on the spot for any other input
RawFuelSpendSavingsTable ==
  [distance \in Distances |-> [fuelType \in FuelTypes |->
   [hasSolar \in BOOLEAN |-> [years \in 1..MaxLoanTermYears |->
     utils_rawFuelSpendSavings([distanceMonthly |-> distance, fuelType |-> fuelType,
                                hasSolar |-> hasSolar, loanTermYears |-> years])]]]]

rawFuelSpendSavingsOf(p) ==
  IF /\ p.distanceMonthly \in Distances
     /\ p.fuelType \in FuelTypes
     /\ p.loanTermYears \in 1..MaxLoanTermYears
  THEN RawFuelSpendSavingsTable[p.distanceMonthly][p.fuelType][p.hasSolar]
                               [p.loanTermYears]
  ELSE utils_rawFuelSpendSavings(p)

\* const fuelSpendSavings = rawFuelSpendSavings - pvEvCost (never returned)
utils_fuelSpendSavings(p) == rawFuelSpendSavingsOf(p) - pvEvCost(p)

utils_pvEbucks(p) ==
  presentValueOfGrowingAnnuity(year1Ebucks(p), utils_FUEL_INFLATION, DISCOUNT_RATE, 5)

utils_co2Emissions(p) ==
  LET iceMonthlyEmissions == calculateMonthlyCO2(p.distanceMonthly, p.fuelType)
      monthlyCO2Savings == iceMonthlyEmissions - evMonthlyEmissions(p)
      yearlyCO2Savings == monthlyCO2Savings * 12
  IN  [ice |-> ToFixed2(iceMonthlyEmissions),
       ev |-> ToFixed2(evMonthlyEmissions(p)),
       monthlySavings |-> ToFixed2(monthlyCO2Savings),
       yearlySavings |-> ToFixed2(yearlyCO2Savings)]

utils_standardUpfrontBenefits(p) ==
  utils_calculateStandardUpfrontBenefits(p.distanceMonthly, p.fuelType, 4)

calculateSavings(body) ==
  LET p == utils_ParseInputs(body)
      rawFuelSpendSavings == rawFuelSpendSavingsOf(p)
      pvEbucksValue == utils_pvEbucks(p)
      carbonTaxValue == carbonTaxSavings(p)
      upfrontValue == upfrontSavings(pvEbucksValue, carbonTaxValue)
      standardBenefits == utils_standardUpfrontBenefits(p)
  IN  [presentValueEbucks |-> ToFixed2(pvEbucksValue),
       carbonTaxSavings |-> ToFixed2(carbonTaxValue),
       fuelSpendSavings |-> rawFuelSpendSavings,
       upfrontSavings |-> ToFixed2(upfrontValue),
       totalSavings |-> ToFixed2(upfrontValue + rawFuelSpendSavings),
       standardUpfrontBenefits |->
         [presentValueEbucks |-> ToFixed2(standardBenefits.presentValueEbucks),
          carbonTaxSavings |-> ToFixed2(standardBenefits.carbonTaxSavings),
          upfrontSavings |-> ToFixed2(standardBenefits.upfrontSavings)],
       co2Emissions |-> utils_co2Emissions(p)]

(***************************************************************************)
(* App: the charging cost the UI shows, a function of the UI's distance,   *)
(* solar flag, vehicle type and PHEV battery capacity.                     *)
(***************************************************************************)
VehicleTypes == {"hybrid", "phev", "ev"}

\* useState<number>(13.8), in kWh
DefaultPhevBatteryCapacity == 13800

calculateMonthlyChargingCost(distance, hasSolar, vehicleType, phevBatteryCapacity) ==
  LET standardRate == 3700
      premiumRate == 7000
      combinedRate == MulDiv(standardRate, 9, 10) + MulDiv(premiumRate, 1, 10)
      evElectricConsumption == 189
      phevElectricConsumption == 189
      batteryRange == Div(phevBatteryCapacity, phevElectricConsumption)
      electricDistance == Min(distance, batteryRange)
      electricConsumption ==
        IF vehicleType = "ev" THEN Mul(distance, evElectricConsumption)
        ELSE IF vehicleType = "phev" THEN Mul(electricDistance, phevElectricConsumption)
        ELSE 0
  IN  IF hasSolar THEN MulDiv(Mul(electricConsumption, combinedRate), 1, 10)
      ELSE Mul(electricConsumption, combinedRate)

(***************************************************************************)
(* App: the standard 5-year upfront benefits the UI derives for display.   *)
(***************************************************************************)
\* vehicleEfficiencyData.ice.fuelConsumption[fuelType]
getICEFuelConsumption(fuelType) ==
  [petrol95 |-> 9, petrol93 |-> 9, diesel |-> 8][fuelType]

getFuelPrice(fuelType) ==
  CASE fuelType = "petrol95" -> 21620
    [] fuelType = "petrol93" -> 21510
    [] fuelType = "diesel" -> 19320
    [] OTHER -> 21620

\* the App's own rate tables: level 4 adds 1.00 where the server adds 0.80
App_baseEbucksRates == <<150, 300, 600, 1500, 3000>>
App_insuranceRates == <<100, 200, 400, 1000, 2000>>
App_financingRates == <<100, 200, 400, 1000, 2000>>

\* calculateMonthlyEbucksReward(useLevel, options) at the App's distance and
\* fuel type
calculateMonthlyEbucksReward(distance, fuelType, level, useInsurance, useFinancing, useNoBank) ==
  LET rate == App_baseEbucksRates[level]
                + (IF ~useNoBank /\ useInsurance THEN App_insuranceRates[level] ELSE 0)
                + (IF ~useNoBank /\ useFinancing THEN App_financingRates[level] ELSE 0)
      monthlyLiters == MulDiv(getICEFuelConsumption(fuelType) * distance, 1, 100)
      monthlyCap == 3000 * Unit
      monthlyFuelCost == Mul(monthlyLiters, getFuelPrice(fuelType))
      cappedLiters == IF monthlyFuelCost > monthlyCap
                      THEN Div(monthlyCap, getFuelPrice(fuelType))
                      ELSE monthlyLiters
  IN  Mul(cappedLiters, rate)

\* the grid on which 1 + 0.1095 / 12 is exact
MonthlyGrid == 40000

\* (1 + monthlyDiscountRate)^n on MonthlyGrid
RECURSIVE MonthlyPow(_)
MonthlyPow(n) ==
  IF n = 0 THEN MonthlyGrid
  ELSE MulDiv(MonthlyPow(n - 1), MonthlyGrid + 365, MonthlyGrid)

\* (1 - Math.pow(1 + monthlyDiscountRate, -60)) / monthlyDiscountRate, an
\* amount
StandardAnnuityFactor ==
  MulDiv(MulDiv(MonthlyPow(60) - MonthlyGrid, MonthlyGrid, MonthlyPow(60)), Unit, 365)

calculatePresentValueEbucks(distance, fuelType, level, useInsurance, useFinancing, useNoBank) ==
  Mul(calculateMonthlyEbucksReward(distance, fuelType, level, useInsurance,
                                   useFinancing, useNoBank),
      StandardAnnuityFactor)

\* App.calculateStandardUpfrontBenefits(), which reads results
App_calculateStandardUpfrontBenefits(distance, fuelType, res) ==
  LET standardEbucksValue ==
        calculatePresentValueEbucks(distance, fuelType, 4, TRUE, TRUE, FALSE)
  IN  [presentValueEbucks |-> standardEbucksValue,
       carbonTaxSavings |-> res.carbonTaxSavings,
       upfrontSavings |-> standardEbucksValue + res.carbonTaxSavings]

(***************************************************************************)
(* ComparisonTab: the state the component is constructed with.  A url is   *)
(* undefined when the field is empty, else a string that may contain       *)
(* 'electric' or 'ev'.                                                     *)
(***************************************************************************)
EmptyUrl == [type |-> "undefined", electric |-> FALSE]

NoComparison == [compared |-> FALSE]

InitialComparison ==
  [electricUrl |-> EmptyUrl, petrolUrl |-> EmptyUrl, electricLoanTerm |-> 60,
   petrolLoanTerm |-> 60, monthlyDistance |-> 1600 * Unit, fuelType |-> "petrol95",
   loanTerm |-> 60, hasSolar |-> FALSE, hasBenefits |-> TRUE, error |-> FALSE,
   results |-> NoComparison]

(***************************************************************************)
(* State.                                                                  *)
(***************************************************************************)
VARIABLES
  data,        \* the inputs of the latest calculation
  results,     \* its result
  servedBy,    \* "none", "server" (/calculate) or "offline" (calculateSavings)
  call,        \* the arguments of a call of the present-value primitives
  closedForm,  \* presentValueOfGrowingAnnuity of call
  nearby,      \* presentValueOfGrowingAnnuity of call, discount rate moved by Epsilon
  loopSum,     \* the year-by-year loop on call
  lookupYear,  \* the year of a carbon-tax rate lookup
  lookupRate,  \* the rate looked up for lookupYear
  evaluated,   \* which of closedForm, nearby, loopSum, lookupRate are computed
  request,     \* an HTTP request a client sent to the server directly
  fetched,     \* what axios.get(url) gave while the request was handled
  reply,       \* the server's answer to request
  invocations, \* the handleCalculate invocations started, in order
  isCalculating, \* App state
  isOfflineMode, \* App state
  error,       \* App state: whether an error message is set
  comparison   \* ComparisonTab state: its inputs, error and results

vars ==
  <<data, results, servedBy, call, closedForm, nearby, loopSum, lookupYear,
    lookupRate, evaluated, request, fetched, reply, invocations, isCalculating,
    isOfflineMode, error, comparison>>

calculatorVars == <<data, results, servedBy>>

primitiveVars ==
  <<call, closedForm, nearby, loopSum, lookupYear, lookupRate, evaluated>>
serverVars == <<request, fetched, reply>>
overlapVars == <<invocations, isCalculating, isOfflineMode, error>>
comparisonVars == <<comparison>>

\* the requests that differ from d in at most one field
Resubmit(d) ==
  {[d EXCEPT !.distance = v] : v \in Distances}
    \cup {[d EXCEPT !.ebucksLevel = v] : v \in EbucksLevels}
    \cup {[d EXCEPT !.fuelType = v] : v \in FuelTypes}
    \cup {[d EXCEPT !.loanTermYears = v] : v \in LoanTerms}
    \cup {[d EXCEPT !.hasInsurance = v] : v \in BOOLEAN}
    \cup {[d EXCEPT !.hasFinancing = v] : v \in BOOLEAN}
    \cup {[d EXCEPT !.hasSolar = v] : v \in BOOLEAN}
    \cup {[d EXCEPT !.hasNoBank = v] : v \in BOOLEAN}

\* The handler and calculateSavings are pure functions of the request: their
\* answers are computed once per request and looked up by the actions.
Request(distance, ebucksLevel, fuelType, hasInsurance, hasFinancing, hasSolar,
        hasNoBank, loanTermYears) ==
  [distance |-> distance, ebucksLevel |-> ebucksLevel, fuelType |-> fuelType,
   hasInsurance |-> hasInsurance, hasFinancing |-> hasFinancing,
   hasSolar |-> hasSolar, hasNoBank |-> hasNoBank, loanTermYears |-> loanTermYears]

ServerResponseTable ==
  [distance \in Distances |-> [ebucksLevel \in EbucksLevels |->
   [fuelType \in FuelTypes |-> [hasInsurance \in BOOLEAN |->
   [hasFinancing \in BOOLEAN |-> [hasSolar \in BOOLEAN |->
   [hasNoBank \in BOOLEAN |-> [loanTermYears \in LoanTerms |->
     CalculateHandler(Request(distance, ebucksLevel, fuelType, hasInsurance,
                              hasFinancing, hasSolar, hasNoBank, loanTermYears))
   ]]]]]]]]

LocalResultsTable ==
  [distance \in Distances |-> [ebucksLevel \in EbucksLevels |->
   [fuelType \in FuelTypes |-> [hasInsurance \in BOOLEAN |->
   [hasFinancing \in BOOLEAN |-> [hasSolar \in BOOLEAN |->
   [hasNoBank \in BOOLEAN |-> [loanTermYears \in LoanTerms |->
     calculateSavings(Request(distance, ebucksLevel, fuelType, hasInsurance,
                              hasFinancing, hasSolar, hasNoBank, loanTermYears))
   ]]]]]]]]

ServerResponse(d) ==
  ServerResponseTable[d.distance][d.ebucksLevel][d.fuelType][d.hasInsurance]
                     [d.hasFinancing][d.hasSolar][d.hasNoBank][d.loanTermYears]

LocalResults(d) ==
  LocalResultsTable[d.distance][d.ebucksLevel][d.fuelType][d.hasInsurance]
                   [d.hasFinancing][d.hasSolar][d.hasNoBank][d.loanTermYears]

NoCall == [cashFlow |-> 0, growthRate |-> 0, discountRate |-> 0, periods |-> 0]

NoRequest == [path |-> "none"]
NoFetch == [outcome |-> "none"]
NoReply == [handled |-> FALSE]

Init ==
  /\ data = DefaultInputs
  /\ results = ZeroResults
  /\ servedBy = "none"
  /\ call = NoCall
  /\ closedForm = 0
  /\ nearby = 0
  /\ loopSum = 0
  /\ lookupYear = 2025
  /\ lookupRate = 0
  /\ evaluated = {}
  /\ request = NoRequest
  /\ fetched = NoFetch
  /\ reply = NoReply
  /\ invocations = << >>
  /\ isCalculating = FALSE
  /\ isOfflineMode = FALSE
  /\ error = FALSE
  /\ comparison = InitialComparison

\* POST /calculate with body d
PostCalculate(d) ==
  /\ data' = d
  /\ results' = ServerResponse(d)
  /\ servedBy' = "server"
  /\ UNCHANGED primitiveVars
  /\ UNCHANGED serverVars
  /\ UNCHANGED overlapVars
  /\ UNCHANGED comparisonVars

\* calculateSavings(d), the local calculation
LocalCalculate(d) ==
  /\ data' = d
  /\ results' = LocalResults(d)
  /\ servedBy' = "offline"
  /\ UNCHANGED primitiveVars
  /\ UNCHANGED serverVars
  /\ UNCHANGED overlapVars
  /\ UNCHANGED comparisonVars

\* handleCalculate: the request is answered by the server, or, when the call
\* fails, by the local calculation
Next ==
  \/ \E d \in Resubmit(data) : PostCalculate(d)
  \/ \E d \in Resubmit(data) : LocalCalculate(d)

Spec == Init /\ [][Next]_vars

(***************************************************************************)
(* The present-value primitives on their own: a call is drawn, then the    *)
(* closed form, the closed form at a nearby discount rate and the          *)
(* year-by-year loop are evaluated on it, in any order.  Rates are whole   *)
(* tenths and periods at most MaxPeriods, so that every power is exact on  *)
(* the rate grid.                                                          *)
(***************************************************************************)
CashFlows == {k * Unit * Unit : k \in 1..MaxCashFlowSteps}

Tenth == RateUnit \div 10

Rates == {k * Tenth : k \in -1..MaxRateTenths}

\* the step by which the nearby call moves the discount rate: 0.01
Epsilon == RateUnit \div CentsPerUnit

PrimitiveCalls ==
  [cashFlow : CashFlows, growthRate : Rates, discountRate : Rates,
   periods : 1..MaxPeriods]

\* the years of the table, and the years after its last
LookupYears ==
  DOMAIN CARBON_TAX
    \cup {MaxOf(DOMAIN CARBON_TAX) + k : k \in 1..MaxYearsBeyondTable}

InitPrimitives ==
  /\ data = DefaultInputs
  /\ results = ZeroResults
  /\ servedBy = "none"
  /\ call \in PrimitiveCalls
  /\ closedForm = 0
  /\ nearby = 0
  /\ loopSum = 0
  /\ lookupYear \in LookupYears
  /\ lookupRate = 0
  /\ evaluated = {}
  /\ request = NoRequest
  /\ fetched = NoFetch
  /\ reply = NoReply
  /\ invocations = << >>
  /\ isCalculating = FALSE
  /\ isOfflineMode = FALSE
  /\ error = FALSE
  /\ comparison = InitialComparison

EvaluateClosedForm ==
  /\ "closedForm" \notin evaluated
  /\ closedForm' = presentValueOfGrowingAnnuity(call.cashFlow, call.growthRate,
                                                call.discountRate, call.periods)
  /\ evaluated' = evaluated \cup {"closedForm"}
  /\ UNCHANGED <<call, nearby, loopSum, lookupYear, lookupRate>>
  /\ UNCHANGED calculatorVars
  /\ UNCHANGED serverVars
  /\ UNCHANGED overlapVars
  /\ UNCHANGED comparisonVars

EvaluateNearby ==
  /\ "nearby" \notin evaluated
  /\ nearby' = presentValueOfGrowingAnnuity(call.cashFlow, call.growthRate,
                                            call.discountRate + Epsilon, call.periods)
  /\ evaluated' = evaluated \cup {"nearby"}
  /\ UNCHANGED <<call, closedForm, loopSum, lookupYear, lookupRate>>
  /\ UNCHANGED calculatorVars
  /\ UNCHANGED serverVars
  /\ UNCHANGED overlapVars
  /\ UNCHANGED comparisonVars

EvaluateLoop ==
  /\ "loopSum" \notin evaluated
  /\ loopSum' = YearByYearLoop(call.cashFlow, call.growthRate, call.discountRate,
                               call.periods, 0)
  /\ evaluated' = evaluated \cup {"loopSum"}
  /\ UNCHANGED <<call, closedForm, nearby, lookupYear, lookupRate>>
  /\ UNCHANGED calculatorVars
  /\ UNCHANGED serverVars
  /\ UNCHANGED overlapVars
  /\ UNCHANGED comparisonVars

\* const rate = CARBON_TAX[year] || CARBON_TAX[Math.max(...)]
LookupCarbonTaxRate ==
  /\ "lookupRate" \notin evaluated
  /\ lookupRate' = CarbonTaxRate(lookupYear)
  /\ evaluated' = evaluated \cup {"lookupRate"}
  /\ UNCHANGED <<call, closedForm, nearby, loopSum, lookupYear>>
  /\ UNCHANGED calculatorVars
  /\ UNCHANGED serverVars
  /\ UNCHANGED overlapVars
  /\ UNCHANGED comparisonVars

NextPrimitives ==
  EvaluateClosedForm \/ EvaluateNearby \/ EvaluateLoop \/ LookupCarbonTaxRate

SpecPrimitives == InitPrimitives /\ [][NextPrimitives]_vars

(***************************************************************************)
(* The server's routes on their own: a client sends one request, to        *)
(* /calculate or to /scrape-vehicle, and the route handles it.  A field    *)
(* of a /calculate body that is missing or is not a number parses to NaN;  *)
(* a reply lists in nan the result fields that are NaN (null in the JSON   *)
(* sent), and its result carries no number for them.                       *)
(***************************************************************************)
\* the body fields read with parseInt and parseFloat
NumberFields == {"distance", "ebucksLevel"}

\* parseInt of a missing or non-numeric ebucksLevel is NaN, a key of no rate
\* table; it is written as level 0, a key of no rate table either
NaNLevel == 0

ResultFields ==
  {"presentValueEbucks", "carbonTaxSavings", "fuelSpendSavings", "upfrontSavings",
   "totalSavings", "standardUpfrontBenefits.presentValueEbucks",
   "standardUpfrontBenefits.carbonTaxSavings",
   "standardUpfrontBenefits.upfrontSavings", "co2Emissions.ice",
   "co2Emissions.ev", "co2Emissions.monthlySavings", "co2Emissions.yearlySavings"}

\* With distanceMonthly = NaN every figure computed from it is NaN, 0 * NaN
\* included; carbonTaxSavings alone stays 0.0 when hasNoBank skips its block.
NaNFields(body) ==
  IF body.hasNoBank THEN ResultFields \ {"carbonTaxSavings"} ELSE ResultFields

\* app.post('/calculate'): req.hasBody is whether req.body is set, and
\* req.notNumbers names the number fields that do not parse to a number
calculateRoute(req) ==
  IF ~req.hasBody
  THEN [handled |-> TRUE, answered |-> TRUE, status |-> 400, error |-> TRUE,
        result |-> ZeroResults, nan |-> {}]
  ELSE IF "distance" \in req.notNumbers
  THEN [handled |-> TRUE, answered |-> TRUE, status |-> 200, error |-> FALSE,
        result |-> ZeroResults, nan |-> NaNFields(req.body)]
  ELSE [handled |-> TRUE, answered |-> TRUE, status |-> 200, error |-> FALSE,
        result |-> CalculateHandler(IF "ebucksLevel" \in req.notNumbers
                                    THEN [req.body EXCEPT !.ebucksLevel = NaNLevel]
                                    ELSE req.body),
        nan |-> {}]

\* the fallback record of scrapeCarDetails' catch block
FallbackData(isElectric) ==
  [price |-> IF isElectric THEN 750000 * Unit ELSE 350000 * Unit,
   fuelEfficiency |-> IF isElectric THEN 18 * Unit ELSE 8500,
   fuelType |-> IF isElectric THEN "Electric" ELSE "Petrol",
   isMockData |-> TRUE]

\* a page gave no consumption figure
NoConsumption == -1

\* the record scraped from a fetched page: page.price is the first price
\* above 0 found (0: none), page.specFuelType the fuel type read in the
\* specifications ("none": not read), page.consumption the figure matched
\* there, page.electric whether the page text points to an electric vehicle.
\* The record has no isMockData field, which reads as false.
ScrapedData(url, page) ==
  LET fuelType == IF page.specFuelType # "none" THEN page.specFuelType
                  ELSE IF url.electric \/ page.electric THEN "Electric"
                  ELSE "Petrol"
      fuelConsumption == IF page.consumption # NoConsumption THEN page.consumption
                         ELSE IF fuelType = "Electric" THEN 18 * Unit
                         ELSE IF fuelType = "Diesel" THEN 7 * Unit
                         ELSE 8500
      price == IF page.price # 0 THEN page.price
               ELSE IF fuelType = "Electric" THEN 750000 * Unit
               ELSE 350000 * Unit
  IN [price |-> price, fuelEfficiency |-> fuelConsumption, fuelType |-> fuelType,
      isMockData |-> FALSE]

\* scrapeCarDetails(url): the record returned, or threw when the catch block
\* itself throws: url.toLowerCase is not a function unless url is a string
scrapeCarDetails(url, fetch) ==
  IF fetch.outcome = "ok"
  THEN [threw |-> FALSE, value |-> ScrapedData(url, fetch.page)]
  ELSE IF url.type # "string"
  THEN [threw |-> TRUE]
  ELSE [threw |-> FALSE, value |-> FallbackData(url.electric)]

\* app.post('/scrape-vehicle'): the async handler's own catch block calls
\* req.body.url?.toLowerCase(), which throws again unless url is a string;
\* the rejected handler sends nothing
scrapeVehicleRoute(req, fetch) ==
  IF req.url.type = "undefined"
  THEN [handled |-> TRUE, answered |-> TRUE, status |-> 400, error |-> TRUE]
  ELSE LET carDetails == scrapeCarDetails(req.url, fetch)
       IN IF ~carDetails.threw
          THEN [handled |-> TRUE, answered |-> TRUE, status |-> 200,
                error |-> FALSE, record |-> carDetails.value]
          ELSE IF req.url.type # "string"
          THEN [handled |-> TRUE, answered |-> FALSE]
          ELSE [handled |-> TRUE, answered |-> TRUE, status |-> 200,
                error |-> FALSE, record |-> FallbackData(req.url.electric)]

\* a field of a JSON body: undefined (missing), a number, or a string that
\* spells a number; value is what arithmetic makes of it
JsonValues(numbers) ==
  {[type |-> "undefined", value |-> 0]} \cup [type : {"number", "string"}, value : numbers]

\* !v is false: a number other than 0, or a string that is not empty
Truthy(v) == (v.type = "number" /\ v.value # 0) \/ v.type = "string"

\* annualRate / 100 / 12, from hundredths of a percent to a rate
MonthlyRate(annualRate) == MulDiv(annualRate, 1, 12)

\* (principal * monthlyRate) / (1 - Math.pow(1 + monthlyRate, -termMonths)):
\* the payment, and whether it is a finite number (0 / 0 is NaN, x / 0 is
\* Infinity, and JSON sends both as null)
AmortizedPayment(principal, monthlyRate, termMonths) ==
  LET denominator ==
        RateUnit - MulDiv(RateUnit, RateUnit, PowInt(RateUnit + monthlyRate, termMonths))
  IN  IF denominator = 0
      THEN [finite |-> FALSE, monthlyPayment |-> 0]
      ELSE [finite |-> TRUE,
            monthlyPayment |-> MulDiv(MulRate(principal, monthlyRate), RateUnit,
                                      denominator)]

\* app.post('/compute-payment')
computePaymentRoute(req) ==
  IF ~Truthy(req.principal) \/ ~Truthy(req.annualRate) \/ ~Truthy(req.termMonths)
  THEN [handled |-> TRUE, answered |-> TRUE, status |-> 400, error |-> TRUE,
        evaluated |-> FALSE]
  ELSE LET monthlyRate == MonthlyRate(req.annualRate.value)
           payment == AmortizedPayment(req.principal.value, monthlyRate,
                                       req.termMonths.value)
       IN  [handled |-> TRUE, answered |-> TRUE, status |-> 200, error |-> FALSE,
            evaluated |-> TRUE, monthlyRate |-> monthlyRate,
            termMonths |-> req.termMonths.value, payment |-> payment]

\* principal 100000, annual rate 12%, terms of 12 and 24 months, and zeros
ComputePaymentRequests ==
  [path : {"/compute-payment"}, principal : JsonValues({0, 100000 * Unit}),
   annualRate : JsonValues({0, 1200}), termMonths : JsonValues({0, 12, 24})]

\* <input type="range" min="12" max="84" step="12">
LoanTermSlider == {12 * k : k \in 1..7}

\* App: the computeMonthlyPayment calls of a render, as annual rate (in
\* hundredths of a percent) and term
AppPaymentCalls(loanTerm) ==
  [annualRate : {1146, 1100, 1085}, termMonths : {loanTerm}]

\* ComparisonTab.handleCompare: its four computeMonthlyPayment calls
ComparisonPaymentCalls(hasBenefits, electricLoanTerm, petrolLoanTerm, loanTerm) ==
  LET primeRate == 1175
      benefitsAdjustment == 46
      iceInterestRate == primeRate + benefitsAdjustment
      evInterestRate == IF hasBenefits THEN primeRate + benefitsAdjustment ELSE primeRate
      currentLoanTerm == IF hasBenefits THEN electricLoanTerm ELSE loanTerm
      currentPetrolLoanTerm == IF hasBenefits THEN petrolLoanTerm ELSE loanTerm
  IN  {[annualRate |-> evInterestRate, termMonths |-> currentLoanTerm],
       [annualRate |-> iceInterestRate, termMonths |-> currentPetrolLoanTerm],
       [annualRate |-> primeRate, termMonths |-> currentLoanTerm],
       [annualRate |-> primeRate, termMonths |-> currentPetrolLoanTerm]}

\* every computeMonthlyPayment call the two tabs can make
UiPaymentCalls ==
  UNION {AppPaymentCalls(loanTerm) : loanTerm \in LoanTermSlider}
    \cup UNION {ComparisonPaymentCalls(hasBenefits, electricLoanTerm,
                                        petrolLoanTerm, loanTerm) :
                  hasBenefits \in BOOLEAN, electricLoanTerm \in LoanTermSlider,
                  petrolLoanTerm \in LoanTermSlider, loanTerm \in LoanTermSlider}

\* the bodies sent: zero and default distance, every level, fuel type, solar
\* and bank flag
CalculateBodies ==
  {[DefaultInputs EXCEPT !.distance = distance, !.ebucksLevel = level,
                         !.fuelType = fuelType, !.hasSolar = hasSolar,
                         !.hasNoBank = hasNoBank] :
     distance \in {0, DefaultInputs.distance}, level \in EbucksLevels,
     fuelType \in FuelTypes, hasSolar \in BOOLEAN, hasNoBank \in BOOLEAN}

CalculateRequests ==
  [path : {"/calculate"}, hasBody : BOOLEAN, body : CalculateBodies,
   notNumbers : SUBSET NumberFields]

\* url as the route sees it: undefined (missing or empty), a string, which
\* may contain 'electric' or 'ev', or a JSON number
Urls ==
  {[type |-> "undefined", electric |-> FALSE], [type |-> "number", electric |-> FALSE]}
    \cup [type : {"string"}, electric : BOOLEAN]

ScrapeRequests == [path : {"/scrape-vehicle"}, url : Urls]

Pages ==
  [price : {0, 499900 * Unit}, specFuelType : {"none", "Electric", "Petrol", "Diesel"},
   consumption : {NoConsumption, 0, 6500}, electric : BOOLEAN]

\* what axios.get(url) and cheerio.load can give: a network error, a timeout,
\* a status other than 200, an exception while parsing, or a page; for a url
\* that is not a string the request itself fails
Fetches(url) ==
  IF url.type = "string"
  THEN [outcome : {"networkError", "timeout", "status", "parseError"}]
         \cup [outcome : {"ok"}, page : Pages]
  ELSE [outcome : {"networkError"}]

InitRequests == Init

SendCalculate(r) ==
  /\ request = NoRequest
  /\ request' = r
  /\ UNCHANGED <<fetched, reply>>
  /\ UNCHANGED calculatorVars
  /\ UNCHANGED primitiveVars
  /\ UNCHANGED overlapVars
  /\ UNCHANGED comparisonVars

SendScrapeVehicle(r) ==
  /\ request = NoRequest
  /\ request' = r
  /\ UNCHANGED <<fetched, reply>>
  /\ UNCHANGED calculatorVars
  /\ UNCHANGED primitiveVars
  /\ UNCHANGED overlapVars
  /\ UNCHANGED comparisonVars

HandleCalculate ==
  /\ request.path = "/calculate"
  /\ ~reply.handled
  /\ reply' = calculateRoute(request)
  /\ UNCHANGED <<request, fetched>>
  /\ UNCHANGED calculatorVars
  /\ UNCHANGED primitiveVars
  /\ UNCHANGED overlapVars
  /\ UNCHANGED comparisonVars

SendComputePayment(r) ==
  /\ request = NoRequest
  /\ request' = r
  /\ UNCHANGED <<fetched, reply>>
  /\ UNCHANGED calculatorVars
  /\ UNCHANGED primitiveVars
  /\ UNCHANGED overlapVars
  /\ UNCHANGED comparisonVars

HandleComputePayment ==
  /\ request.path = "/compute-payment"
  /\ ~reply.handled
  /\ reply' = computePaymentRoute(request)
  /\ UNCHANGED <<request, fetched>>
  /\ UNCHANGED calculatorVars
  /\ UNCHANGED primitiveVars
  /\ UNCHANGED overlapVars
  /\ UNCHANGED comparisonVars

HandleScrapeVehicle ==
  /\ request.path = "/scrape-vehicle"
  /\ ~reply.handled
  /\ \E fetch \in Fetches(request.url) :
       /\ fetched' = IF request.url.type = "undefined" THEN NoFetch ELSE fetch
       /\ reply' = scrapeVehicleRoute(request, fetch)
  /\ UNCHANGED request
  /\ UNCHANGED calculatorVars
  /\ UNCHANGED primitiveVars
  /\ UNCHANGED overlapVars
  /\ UNCHANGED comparisonVars

NextRequests ==
  \/ \E r \in CalculateRequests : SendCalculate(r)
  \/ \E r \in ScrapeRequests : SendScrapeVehicle(r)
  \/ \E r \in ComputePaymentRequests : SendComputePayment(r)
  \/ HandleCalculate
  \/ HandleScrapeVehicle
  \/ HandleComputePayment

SpecRequests == InitRequests /\ [][NextRequests]_vars

(***************************************************************************)
(* handleCalculate as the asynchronous function it is.  Every change of    *)
(* an input re-runs the effect, which starts an invocation: it clears the  *)
(* error, sets isCalculating and captures inputData, then awaits the       *)
(* fetch.  When the fetch settles the invocation resumes and, in one       *)
(* synchronous run, stores the results, sets isOfflineMode and resets      *)
(* isCalculating.  Nothing orders or cancels the invocations, so they      *)
(* overlap and settle in any order.  calculateSavings does not throw on    *)
(* the inputs of the UI, so the outer catch is not taken.                  *)
(***************************************************************************)
\* the inputs the user moves between: three distances, solar on and off
OverlapInputs ==
  {[DefaultInputs EXCEPT !.distance = distance, !.hasSolar = hasSolar] :
     distance \in {k * DistanceStep : k \in 1..3}, hasSolar \in BOOLEAN}

\* how the awaited fetch settles: a response that is ok and carries no error
\* field, a network error, a status that is not ok, or a body with an error
\* field
FetchOutcomes == {"ok", "networkError", "httpError", "errorField"}

\* the results stored without the fallback of the inner catch
StoredResults_withoutFallback(inputData, outcome) ==
  IF outcome = "ok" THEN ServerResponse(inputData) ELSE ZeroResults

\* setResults(data) after a good response, setResults(localResults) in the
\* inner catch
StoredResults(inputData, outcome) ==
  IF outcome = "ok" THEN ServerResponse(inputData) ELSE LocalResults(inputData)

Pending == {i \in DOMAIN invocations : invocations[i].pc = "fetching"}

InitOverlap == Init

\* the start of handleCalculate up to the await
StartInvocation(inputData) ==
  /\ error' = FALSE
  /\ isCalculating' = TRUE
  /\ invocations' =
       Append(invocations, [inputData |-> inputData, pc |-> "fetching", outcome |-> "none"])

\* useEffect on the first render
Mount ==
  /\ invocations = << >>
  /\ StartInvocation(data)
  /\ UNCHANGED <<data, results, servedBy, isOfflineMode>>
  /\ UNCHANGED primitiveVars
  /\ UNCHANGED serverVars
  /\ UNCHANGED comparisonVars

\* the user changes one input; the effect runs handleCalculate again
ChangeInput(d) ==
  /\ invocations # << >>
  /\ Len(invocations) < MaxInvocations
  /\ d # data
  /\ d.distance = data.distance \/ d.hasSolar = data.hasSolar
  /\ data' = d
  /\ StartInvocation(d)
  /\ UNCHANGED <<results, servedBy, isOfflineMode>>
  /\ UNCHANGED primitiveVars
  /\ UNCHANGED serverVars
  /\ UNCHANGED comparisonVars

\* the fetch of invocation i settles and the invocation runs to its end
Settle(i, outcome) ==
  /\ i \in Pending
  /\ results' = StoredResults(invocations[i].inputData, outcome)
  /\ isOfflineMode' = (outcome # "ok")
  /\ servedBy' = IF outcome = "ok" THEN "server" ELSE "offline"
  /\ isCalculating' = FALSE
  /\ invocations' = [invocations EXCEPT ![i].pc = "finished", ![i].outcome = outcome]
  /\ UNCHANGED <<data, error>>
  /\ UNCHANGED primitiveVars
  /\ UNCHANGED serverVars
  /\ UNCHANGED comparisonVars

NextOverlap ==
  \/ Mount
  \/ \E d \in OverlapInputs : ChangeInput(d)
  \/ \E i \in DOMAIN invocations, outcome \in FetchOutcomes : Settle(i, outcome)

SpecOverlap == InitOverlap /\ [][NextOverlap]_vars

(***************************************************************************)
(* ComparisonTab: the vehicle-comparison tab.  The user edits the inputs   *)
(* and presses Compare; handleCompare obtains the two cars (scraped        *)
(* through /scrape-vehicle when hasBenefits, else the manual defaults),    *)
(* computes payments, fuel costs and the cumulative series, and stores     *)
(* them.  The handler is taken as one step: what the two requests give is  *)
(* drawn when it runs, and isLoading is false again when it returns.  The   *)
(* loan terms of the two scraped cars stay at their initial 60 months.     *)
(***************************************************************************)
ComparisonTab_FUEL_CONSUMPTION == [petrol95 |-> 8000, petrol93 |-> 8200, diesel |-> 6500]

\* fuelType.toLowerCase().includes('electric')
IncludesElectric(fuelType) == fuelType = "Electric"

\* ComparisonTab.computeMonthlyPayment, annualRate in hundredths of a percent
ComparisonTab_computeMonthlyPayment(principal, annualRate, termMonths) ==
  AmortizedPayment(principal, MonthlyRate(annualRate), termMonths).monthlyPayment

\* ComparisonTab.computeFuelCost
computeFuelCost(carDetails, distance, useSolar) ==
  LET ComparisonTab_CO2_GRID == 900
      ComparisonTab_CO2_SOLAR == 90
      ComparisonTab_CO2_PER_LITER == 2350
  IN
  IF IncludesElectric(carDetails.fuelType)
  THEN LET energyUsed == Mul(MulDiv(distance, 1, 100), carDetails.fuelEfficiency)
           standardRate == 3700
           premiumRate == 7000
           combinedRate == MulDiv(standardRate, 9, 10) + MulDiv(premiumRate, 1, 10)
       IN  IF useSolar
           THEN [cost |-> 0, emissions |-> Mul(energyUsed, ComparisonTab_CO2_SOLAR)]
           ELSE [cost |-> Mul(energyUsed, combinedRate),
                 emissions |-> Mul(energyUsed, ComparisonTab_CO2_GRID)]
  ELSE LET litersUsed == Mul(MulDiv(distance, 1, 100), carDetails.fuelEfficiency)
       IN  [cost |-> Mul(litersUsed, 21 * Unit),
            emissions |-> Mul(litersUsed, ComparisonTab_CO2_PER_LITER)]

\* Math.pow(1 + annualInflation, 1/12) for 0.05 and for 0.09
electricMonthlyInflation == Root12(10500)

petrolMonthlyInflation == Root12(10900)

\* initialFuelCost * Math.pow(monthlyInflation, m - 1) for the n months from
\* the one whose power of monthlyInflation is power
RECURSIVE InflatedCosts(_, _, _, _)
InflatedCosts(initialFuelCost, monthlyInflation, power, n) ==
  IF n = 0 THEN << >>
  ELSE <<MulRate(initialFuelCost, power)>>
         \o InflatedCosts(initialFuelCost, monthlyInflation,
                          MulRate(power, monthlyInflation), n - 1)

\* the running totals of costs, on top of cumFuel
RECURSIVE Cumulate(_, _)
Cumulate(costs, cumFuel) ==
  IF costs = << >> THEN << >>
  ELSE <<cumFuel + Head(costs)>> \o Cumulate(Tail(costs), cumFuel + Head(costs))

generateCumulativeFuelCost(initialFuelCost, totalPeriod, fuelType) ==
  LET monthlyInflation == IF IncludesElectric(fuelType) THEN electricMonthlyInflation
                          ELSE petrolMonthlyInflation
  IN  Cumulate(InflatedCosts(initialFuelCost, monthlyInflation, RateUnit, totalPeriod), 0)

\* the fallback record of fetchCarDetails' catch block
ComparisonTab_fallbackData(isElectric) ==
  [price |-> IF isElectric THEN 750000 * Unit ELSE 300000 * Unit,
   fuelEfficiency |-> IF isElectric THEN 18 * Unit ELSE 8 * Unit,
   fuelType |-> IF isElectric THEN "Electric" ELSE "Petrol",
   isMockData |-> TRUE]

\* fetchCarDetails(url): the record /scrape-vehicle sent if its price and
\* fuelEfficiency are above 0; the fallback record when they are not, when
\* the status is not 200 and when no response came (outcome "noResponse")
fetchCarDetails(url, fetch) ==
  IF fetch.outcome = "noResponse"
  THEN ComparisonTab_fallbackData(url.electric)
  ELSE LET response == scrapeVehicleRoute([path |-> "/scrape-vehicle", url |-> url], fetch)
       IN  IF /\ response.answered
              /\ response.status = 200
              /\ response.record.price > 0
              /\ response.record.fuelEfficiency > 0
           THEN response.record
           ELSE ComparisonTab_fallbackData(url.electric)

\* the body of handleCompare's try block for the two cars obtained
CompareCars(c, electricCar, petrolCar) ==
  LET primeRate == 1175
      benefitsAdjustment == 46
      adminFee == 69 * Unit
      iceInterestRate == primeRate + benefitsAdjustment
      evInterestRate == IF c.hasBenefits THEN primeRate + benefitsAdjustment ELSE primeRate
      currentLoanTerm == IF c.hasBenefits THEN c.electricLoanTerm ELSE c.loanTerm
      currentPetrolLoanTerm == IF c.hasBenefits THEN c.petrolLoanTerm ELSE c.loanTerm
      electricPayment ==
        ComparisonTab_computeMonthlyPayment(electricCar.price, evInterestRate,
                                            currentLoanTerm) + adminFee
      petrolPayment ==
        ComparisonTab_computeMonthlyPayment(petrolCar.price, iceInterestRate,
                                            currentPetrolLoanTerm) + adminFee
      electricPaymentWithoutBenefits ==
        ComparisonTab_computeMonthlyPayment(electricCar.price, primeRate,
                                            currentLoanTerm) + adminFee
      petrolPaymentWithoutBenefits ==
        ComparisonTab_computeMonthlyPayment(petrolCar.price, primeRate,
                                            currentPetrolLoanTerm) + adminFee
      electricFuelData == computeFuelCost(electricCar, c.monthlyDistance, c.hasSolar)
      petrolFuelData == computeFuelCost(petrolCar, c.monthlyDistance, FALSE)
      electricFuelCost == electricFuelData.cost
      petrolFuelCost == petrolFuelData.cost
      electricTotal == electricPayment + electricFuelCost
      petrolTotal == petrolPayment + petrolFuelCost
      totalTermFinanceSavings ==
        IF c.hasBenefits
        THEN (electricPaymentWithoutBenefits - electricPayment) * currentLoanTerm
               + (petrolPaymentWithoutBenefits - petrolPayment) * currentPetrolLoanTerm
        ELSE 0
      totalPeriod == IF currentLoanTerm > currentPetrolLoanTerm THEN currentLoanTerm
                     ELSE currentPetrolLoanTerm
      cumElectricFuel ==
        IF c.hasSolar THEN [m \in 1..totalPeriod |-> 0]
        ELSE generateCumulativeFuelCost(electricFuelCost, totalPeriod, electricCar.fuelType)
      cumPetrolFuel == generateCumulativeFuelCost(petrolFuelCost, totalPeriod, petrolCar.fuelType)
      totalFuelSavings == cumPetrolFuel[totalPeriod] - cumElectricFuel[totalPeriod]
  IN  [compared |-> TRUE,
       electric |->
         [price |-> electricCar.price,
          monthlyPayment |-> ToFixed2(electricPayment),
          monthlyPaymentWithoutBenefits |-> ToFixed2(electricPaymentWithoutBenefits),
          fuelCost |-> ToFixed2(electricFuelCost),
          totalMonthlyCost |-> ToFixed2(electricTotal),
          fuelEfficiency |-> electricCar.fuelEfficiency,
          fuelType |-> electricCar.fuelType,
          loanTerm |-> currentLoanTerm,
          isMockData |-> electricCar.isMockData],
       petrol |->
         [price |-> petrolCar.price,
          monthlyPayment |-> ToFixed2(petrolPayment),
          monthlyPaymentWithoutBenefits |-> ToFixed2(petrolPaymentWithoutBenefits),
          fuelCost |-> ToFixed2(petrolFuelCost),
          totalMonthlyCost |-> ToFixed2(petrolTotal),
          fuelEfficiency |-> petrolCar.fuelEfficiency,
          fuelType |-> petrolCar.fuelType,
          loanTerm |-> currentPetrolLoanTerm,
          isMockData |-> petrolCar.isMockData],
       savings |->
         [monthlySavings |-> ToFixed2(petrolTotal - electricTotal),
          fuelSavings |-> ToFixed2(petrolFuelCost - electricFuelCost),
          carbonSavings |-> ToFixed2(petrolFuelData.emissions - electricFuelData.emissions),
          totalFuelSavings |-> ToFixed2(totalFuelSavings),
          termFinanceSavings |-> ToFixed2(totalTermFinanceSavings)],
       cumulativeData |->
         [labels |-> [m \in 1..totalPeriod |-> m],
          electricCosts |-> [m \in 1..totalPeriod |-> ToFixed2(cumElectricFuel[m])],
          petrolCosts |-> [m \in 1..totalPeriod |-> ToFixed2(cumPetrolFuel[m])],
          savings |-> [m \in 1..totalPeriod |->
                        ToFixed2(cumPetrolFuel[m] - cumElectricFuel[m])]]]

\* the slider of loanTerm: 12 to 84 months in steps of 12
ComparisonTerms == {60} \cup {12 * k : k \in 1..MaxComparisonTermYears}

\* what a /scrape-vehicle request of the tab can meet: no response from the
\* server, a listing with price and consumption, a listing with neither
ComparisonFetches ==
  {[outcome |-> "noResponse"],
   [outcome |-> "ok",
    page |-> [price |-> 499900 * Unit, specFuelType |-> "none",
              consumption |-> 6500, electric |-> FALSE]],
   [outcome |-> "ok",
    page |-> [price |-> 0, specFuelType |-> "none",
              consumption |-> NoConsumption, electric |-> FALSE]]}

SetUrls(electricUrl, petrolUrl) ==
  /\ comparison' = [comparison EXCEPT !.electricUrl = electricUrl,
                                      !.petrolUrl = petrolUrl]
  /\ UNCHANGED <<calculatorVars, primitiveVars, serverVars, overlapVars>>

SetLoanTerm(loanTerm) ==
  /\ comparison' = [comparison EXCEPT !.loanTerm = loanTerm]
  /\ UNCHANGED <<calculatorVars, primitiveVars, serverVars, overlapVars>>

SetMonthlyDistance(distance) ==
  /\ comparison' = [comparison EXCEPT !.monthlyDistance = distance]
  /\ UNCHANGED <<calculatorVars, primitiveVars, serverVars, overlapVars>>

SetFuelType(fuelType) ==
  /\ comparison' = [comparison EXCEPT !.fuelType = fuelType]
  /\ UNCHANGED <<calculatorVars, primitiveVars, serverVars, overlapVars>>

SetHasSolar(hasSolar) ==
  /\ comparison' = [comparison EXCEPT !.hasSolar = hasSolar]
  /\ UNCHANGED <<calculatorVars, primitiveVars, serverVars, overlapVars>>

SetHasBenefits(hasBenefits) ==
  /\ comparison' = [comparison EXCEPT !.hasBenefits = hasBenefits]
  /\ UNCHANGED <<calculatorVars, primitiveVars, serverVars, overlapVars>>

\* handleCompare stopped by its first check: a url is missing
handleCompare_missingUrl ==
  /\ comparison.hasBenefits
  /\ comparison.electricUrl = EmptyUrl \/ comparison.petrolUrl = EmptyUrl
  /\ comparison' = [comparison EXCEPT !.error = TRUE]
  /\ UNCHANGED <<calculatorVars, primitiveVars, serverVars, overlapVars>>

\* handleCompare with the two cars scraped
handleCompare_withBenefits(electricFetch, petrolFetch) ==
  /\ comparison.hasBenefits
  /\ comparison.electricUrl # EmptyUrl /\ comparison.petrolUrl # EmptyUrl
  /\ comparison' =
       [comparison EXCEPT
          !.error = FALSE,
          !.results = CompareCars(comparison,
                                  fetchCarDetails(comparison.electricUrl, electricFetch),
                                  fetchCarDetails(comparison.petrolUrl, petrolFetch))]
  /\ UNCHANGED <<calculatorVars, primitiveVars, serverVars, overlapVars>>

\* handleCompare in the fuel-savings-only mode: the cars are made from the
\* manual inputs (evVehiclePrice 750000, iceVehiclePrice 350000)
handleCompare_fuelSavingsOnly ==
  /\ ~comparison.hasBenefits
  /\ LET electricCar ==
           [price |-> 750000 * Unit, fuelEfficiency |-> 18 * Unit,
            fuelType |-> "Electric", isMockData |-> FALSE]
         petrolCar ==
           [price |-> 350000 * Unit,
            fuelEfficiency |->
              IF comparison.fuelType \in DOMAIN ComparisonTab_FUEL_CONSUMPTION
              THEN ComparisonTab_FUEL_CONSUMPTION[comparison.fuelType] ELSE 8 * Unit,
            fuelType |-> comparison.fuelType, isMockData |-> FALSE]
     IN  comparison' =
           [comparison EXCEPT
              !.error = FALSE,
              !.results = CompareCars(comparison, electricCar, petrolCar)]
  /\ UNCHANGED <<calculatorVars, primitiveVars, serverVars, overlapVars>>

NextComparison ==
  \/ \E electricUrl \in {EmptyUrl, [type |-> "string", electric |-> TRUE]},
        petrolUrl \in {EmptyUrl, [type |-> "string", electric |-> FALSE]} :
        SetUrls(electricUrl, petrolUrl)
  \/ \E loanTerm \in ComparisonTerms : SetLoanTerm(loanTerm)
  \/ \E distance \in {800 * Unit, 1600 * Unit} : SetMonthlyDistance(distance)
  \/ \E fuelType \in {"petrol95", "petrol93", "diesel"} : SetFuelType(fuelType)
  \/ \E hasSolar \in BOOLEAN : SetHasSolar(hasSolar)
  \/ \E hasBenefits \in BOOLEAN : SetHasBenefits(hasBenefits)
  \/ handleCompare_missingUrl
  \/ \E electricFetch \in ComparisonFetches, petrolFetch \in ComparisonFetches :
        handleCompare_withBenefits(electricFetch, petrolFetch)
  \/ handleCompare_fuelSavingsOnly

SpecComparison == Init /\ [][NextComparison]_vars

(***************************************************************************)
(* Properties of the calculator (specification Spec).                      *)
(***************************************************************************)
Calculated == servedBy \in {"server", "offline"}

\* C1: whenever hasNoBank is true, the server handler and the offline
\* calculateSavings both return presentValueEbucks = 0 and carbonTaxSavings = 0,
\* hence upfrontSavings = 0, whatever the other inputs are.
NoBankZeroesRewards ==
  (Calculated /\ data.hasNoBank) =>
    /\ results.presentValueEbucks = 0
    /\ results.carbonTaxSavings = 0
    /\ results.upfrontSavings = 0

\* a no-bank calculation at the top reward level with both add-ons, on a
\* distance that burns fuel
NoBankZeroesRewards_witness ==
  /\ servedBy = "offline"
  /\ data.hasNoBank /\ data.ebucksLevel = 5
  /\ data.hasInsurance /\ data.hasFinancing
  /\ data.distance > 0
  /\ results.fuelSpendSavings # 0
  /\ results.upfrontSavings = 0

\* C2: the returned upfrontSavings is the returned presentValueEbucks plus the
\* returned carbonTaxSavings, to within 0.01.
UpfrontIsRewardsPlusCarbonTax ==
  Calculated =>
    Abs(results.upfrontSavings
          - (results.presentValueEbucks + results.carbonTaxSavings)) <= CentStep

\* both parts are positive and the three roundings do not add up exactly
UpfrontIsRewardsPlusCarbonTax_witness ==
  /\ servedBy = "server"
  /\ results.presentValueEbucks > 0
  /\ results.carbonTaxSavings > 0
  /\ results.upfrontSavings # results.presentValueEbucks + results.carbonTaxSavings

\* C3: the returned totalSavings is the returned upfrontSavings plus the
\* returned fuelSpendSavings, to within 0.01, on the server and offline.
TotalIsUpfrontPlusFuelSavings ==
  Calculated =>
    Abs(results.totalSavings
          - (results.upfrontSavings + results.fuelSpendSavings)) <= CentStep

\* an offline result with rewards and with fuel savings
TotalIsUpfrontPlusFuelSavings_witness ==
  /\ servedBy = "offline"
  /\ results.upfrontSavings > 0
  /\ results.fuelSpendSavings > 0
  /\ results.totalSavings > results.upfrontSavings

\* PV(ICE fuel cost) - PV(EV energy cost) over the loan term: each year's
\* inflated fuel cost and each year's (solar-adjusted) EV cost, discounted by
\* presentValue at the year's number
PresentValueDifference(p, fuelInflation) ==
  YearByYearLoop(year1FuelCost(p), fuelInflation, DISCOUNT_RATE, p.loanTermYears, 0)
    - LevelCostSum(IF p.hasSolar THEN MulDiv(annualEvCost(p), 1, 10)
                   ELSE annualEvCost(p),
                   p.loanTermYears, 0)

\* C4 (the server's part): the handler's fuelSpendSavings is that difference.
ServerFuelSavingsArePresentValues ==
  servedBy = "server" =>
    results.fuelSpendSavings
      = MathRound2(PresentValueDifference(ParseInputs(data), FUEL_INFLATION))

\* C4: the returned fuelSpendSavings is PV(ICE fuel cost) - PV(EV energy cost),
\* on the server and offline (each with its own file's fuel inflation), to
\* within 0.01.
FuelSavingsArePresentValues ==
  /\ servedBy = "server" =>
        Abs(results.fuelSpendSavings
              - PresentValueDifference(ParseInputs(data), FUEL_INFLATION)) <= CentStep
  /\ servedBy = "offline" =>
        Abs(results.fuelSpendSavings
              - PresentValueDifference(utils_ParseInputs(data), utils_FUEL_INFLATION))
          <= CentStep

\* C5: two calculations that agree on distance and fuelType return the same
\* standardUpfrontBenefits.  Successive calculations differ in one input; any
\* two requests are linked by such steps, so the step property gives the
\* pairwise one.  (The server and calculateSavings are compared each with
\* itself: their fuel inflations differ.)
StandardBenefitsIgnoreCallerFlags ==
  [][(/\ servedBy' = servedBy
      /\ data'.distance = data.distance
      /\ data'.fuelType = data.fuelType)
       => results'.standardUpfrontBenefits = results.standardUpfrontBenefits]_vars

\* a no-bank, level-1, two-year request without add-ons: the caller's own
\* rewards are zero and the standard benefits are not
StandardBenefitsIgnoreCallerFlags_witness ==
  /\ servedBy = "server"
  /\ data.ebucksLevel = 1 /\ data.hasNoBank
  /\ ~data.hasInsurance /\ ~data.hasFinancing
  /\ data.loanTermYears = 2
  /\ results.upfrontSavings = 0
  /\ results.standardUpfrontBenefits.presentValueEbucks > 0
  /\ results.standardUpfrontBenefits.carbonTaxSavings > 0

\* C6: at ebucksLevel 4 with both add-ons and hasNoBank false, the main
\* result's presentValueEbucks, carbonTaxSavings and upfrontSavings are the
\* standardUpfrontBenefits, for every distance, fuel type and loan term.
StandardBenefitsAreLevelFourResult ==
  (/\ Calculated
   /\ data.ebucksLevel = 4 /\ data.hasInsurance /\ data.hasFinancing
   /\ ~data.hasNoBank)
    => /\ results.standardUpfrontBenefits.presentValueEbucks
            = results.presentValueEbucks
       /\ results.standardUpfrontBenefits.carbonTaxSavings = results.carbonTaxSavings
       /\ results.standardUpfrontBenefits.upfrontSavings = results.upfrontSavings

\* the reference scenario itself, over a spend above the monthly cap
StandardBenefitsAreLevelFourResult_witness ==
  /\ servedBy = "offline"
  /\ data.ebucksLevel = 4 /\ data.hasInsurance /\ data.hasFinancing
  /\ ~data.hasNoBank
  /\ data.loanTermYears = 3
  /\ monthlyFuelSpend(utils_ParseInputs(data)) > MONTHLY_FUEL_SPEND_CAP
  /\ results.presentValueEbucks > 0

AnnualTonnesCo2(d) ==
  MulDiv(Mul(MonthlyLitres(d.distance, d.fuelType) * 12, CO2_PER_LITRE), 1, 1000)

\* the carbon tax of 2025..2029 on the annual tonnes, each year discounted by
\* presentValue at its number 1..5
FiveYearCarbonTax(d) ==
  presentValue(AnnualTonnesCo2(d) * CARBON_TAX[2025], DISCOUNT_RATE, 1)
    + presentValue(AnnualTonnesCo2(d) * CARBON_TAX[2026], DISCOUNT_RATE, 2)
    + presentValue(AnnualTonnesCo2(d) * CARBON_TAX[2027], DISCOUNT_RATE, 3)
    + presentValue(AnnualTonnesCo2(d) * CARBON_TAX[2028], DISCOUNT_RATE, 4)
    + presentValue(AnnualTonnesCo2(d) * CARBON_TAX[2029], DISCOUNT_RATE, 5)

RawMonthlySpend(d) == Mul(MonthlyLitres(d.distance, d.fuelType), FuelPrice(d.fuelType))

\* C11: presentValueEbucks never decreases when the distance grows, and two
\* requests that differ in distance only, both with a monthly fuel spend at or
\* above the cap of 3000, have the same presentValueEbucks.
RewardsStopGrowingAtCap ==
  [][(/\ servedBy' = servedBy
      /\ \E v \in Distances : data' = [data EXCEPT !.distance = v]
      /\ data'.distance >= data.distance)
       => /\ results'.presentValueEbucks >= results.presentValueEbucks
          /\ (/\ RawMonthlySpend(data) >= MONTHLY_FUEL_SPEND_CAP
              /\ RawMonthlySpend(data') >= MONTHLY_FUEL_SPEND_CAP)
               => results'.presentValueEbucks = results.presentValueEbucks]_vars

\* a rewarded request at the largest distance, whose spend is above the cap
\* and whose reward is that of the next smaller distance, also above the cap
RewardsStopGrowingAtCap_witness ==
  /\ servedBy = "server"
  /\ data.distance = MaxDistanceSteps * DistanceStep
  /\ RawMonthlySpend(data) > MONTHLY_FUEL_SPEND_CAP
  /\ RawMonthlySpend([data EXCEPT !.distance = @ - DistanceStep])
       > MONTHLY_FUEL_SPEND_CAP
  /\ results.presentValueEbucks > 0
  /\ results.presentValueEbucks
       = ServerResponse([data EXCEPT !.distance = @ - DistanceStep]).presentValueEbucks

\* solarCost is a tenth of gridCost, to within 0.01, and is not zero
TenthOf(solarCost, gridCost) ==
  /\ solarCost > 0
  /\ Abs(solarCost - MulDiv(gridCost, 1, 10)) <= CentStep

\* the solar and the grid cost of the current request: the handler's pvEvCost,
\* calculateSavings' monthlyChargingCost and pvEvCost, and the UI's
\* calculateMonthlyChargingCost for each of the given vehicle types
SolarCostIsTenthFor(vehicleTypes) ==
  LET solar == [data EXCEPT !.hasSolar = TRUE]
      grid == [data EXCEPT !.hasSolar = FALSE]
  IN  (Calculated /\ data.distance > 0) =>
        /\ TenthOf(pvEvCost(ParseInputs(solar)), pvEvCost(ParseInputs(grid)))
        /\ TenthOf(pvEvCost(utils_ParseInputs(solar)),
                   pvEvCost(utils_ParseInputs(grid)))
        /\ TenthOf(utils_monthlyChargingCost(utils_ParseInputs(solar)),
                   utils_monthlyChargingCost(utils_ParseInputs(grid)))
        /\ \A vehicleType \in vehicleTypes :
              TenthOf(calculateMonthlyChargingCost(data.distance, TRUE, vehicleType,
                                                   DefaultPhevBatteryCapacity),
                      calculateMonthlyChargingCost(data.distance, FALSE, vehicleType,
                                                   DefaultPhevBatteryCapacity))

SolarStepLowersEmissions(minDistance) ==
  (/\ servedBy' = servedBy
   /\ data' = [data EXCEPT !.hasSolar = TRUE]
   /\ ~data.hasSolar
   /\ data.distance >= minDistance)
    => /\ results'.co2Emissions.ev < results.co2Emissions.ev
       /\ results'.co2Emissions.ev > 0

LongerDistanceRaisesEmissions(minIncrease) ==
  (/\ servedBy' = servedBy
   /\ \E v \in Distances : data' = [data EXCEPT !.distance = v]
   /\ data'.distance > data.distance
   /\ data'.distance - data.distance >= minIncrease)
    => /\ results'.co2Emissions.ice > results.co2Emissions.ice
       /\ ~data.hasSolar => results'.co2Emissions.ev > results.co2Emissions.ev

\* C14 (as stated): increasing the distance strictly increases the reported
\* co2Emissions.ice and, without solar, the reported co2Emissions.ev.
EmissionsStrictlyIncreaseWithDistance ==
  [][LongerDistanceRaisesEmissions(1)]_vars

\* C14 (amended): increasing the distance never decreases the two reported
\* figures, and strictly increases them when the increase is at least 1 km.
EmissionsIncreaseWithDistance ==
  [][/\ LongerDistanceRaisesEmissions(Unit)
     /\ (/\ servedBy' = servedBy
         /\ \E v \in Distances : data' = [data EXCEPT !.distance = v]
         /\ data'.distance > data.distance)
          => /\ results'.co2Emissions.ice >= results.co2Emissions.ice
             /\ results'.co2Emissions.ev >= results.co2Emissions.ev]_vars

\* a grid request over three distance steps, whose two figures exceed those
\* of the same request over two steps
EmissionsIncreaseWithDistance_witness ==
  /\ servedBy = "server"
  /\ ~data.hasSolar /\ data.distance = 3 * DistanceStep
  /\ results.co2Emissions.ice
       > ServerResponse([data EXCEPT !.distance = 2 * DistanceStep]).co2Emissions.ice
  /\ results.co2Emissions.ev
       > ServerResponse([data EXCEPT !.distance = 2 * DistanceStep]).co2Emissions.ev

\* the results the endpoint that served the last calculation gives for d
ResultsFor(d) == IF servedBy = "server" THEN ServerResponse(d) ELSE LocalResults(d)

LoanTermDefaultsToFive ==
  (Calculated /\ data.loanTermYears = 0) =>
    results = ResultsFor([data EXCEPT !.loanTermYears = 5])

\* a calculation without loanTermYears whose result depends on the term
LoanTermDefaultsToFive_witness ==
  /\ Calculated
  /\ data.loanTermYears = 0
  /\ results.fuelSpendSavings > 0
  /\ results # ResultsFor([data EXCEPT !.loanTermYears = 4])

\* C20: for every level 1..5, fuel type of the tables, distance >= 0, any
\* flags and loanTermYears >= 1, presentValueEbucks, carbonTaxSavings,
\* upfrontSavings and the three standardUpfrontBenefits fields are >= 0.
PresentValuesAreNonNegative ==
  (/\ Calculated
   /\ data.ebucksLevel \in 1..5
   /\ data.fuelType \in {"diesel", "petrol95", "petrol93"}
   /\ data.distance >= 0
   /\ data.loanTermYears >= 1) =>
    /\ results.presentValueEbucks >= 0
    /\ results.carbonTaxSavings >= 0
    /\ results.upfrontSavings >= 0
    /\ results.standardUpfrontBenefits.presentValueEbucks >= 0
    /\ results.standardUpfrontBenefits.carbonTaxSavings >= 0
    /\ results.standardUpfrontBenefits.upfrontSavings >= 0

\* a rewarded one-year diesel calculation below the spend cap
PresentValuesAreNonNegative_witness ==
  /\ Calculated
  /\ data.fuelType = "diesel"
  /\ data.loanTermYears = 1
  /\ data.distance > 0
  /\ RawMonthlySpend(data) < MONTHLY_FUEL_SPEND_CAP
  /\ results.presentValueEbucks > 0
  /\ results.carbonTaxSavings > 0
  /\ results.standardUpfrontBenefits.upfrontSavings > 0

\* the per-litre reward rate of a banked request: the level's base rate, plus
\* its insurance rate iff hasInsurance, plus its financing rate iff hasFinancing
AddOnRate(d) ==
  BASE_EBUCKS[d.ebucksLevel]
    + (IF d.hasInsurance THEN INSURANCE_RATES[d.ebucksLevel] ELSE 0)
    + (IF d.hasFinancing THEN FINANCING_RATES[d.ebucksLevel] ELSE 0)

\* that rate * qualifying litres * 12
Year1Reward(d) ==
  Mul(AddOnRate(d),
      Div(Min(RawMonthlySpend(d), MONTHLY_FUEL_SPEND_CAP), FuelPrice(d.fuelType))) * 12

\* the reported present value of Year1Reward over 5 years
ReportedReward(d) ==
  IF servedBy = "server"
  THEN MathRound2(presentValueOfGrowingAnnuity(Year1Reward(d), FUEL_INFLATION,
                                                DISCOUNT_RATE, 5))
  ELSE ToFixed2(presentValueOfGrowingAnnuity(Year1Reward(d), utils_FUEL_INFLATION,
                                              DISCOUNT_RATE, 5))

\* C21: when hasNoBank is false, presentValueEbucks is the present value of
\* (base rate + insurance rate iff hasInsurance + financing rate iff
\* hasFinancing) * qualifying litres * 12, and switching an add-on flag from
\* false to true never decreases presentValueEbucks.
RewardRateIsBasePlusAddOns ==
  /\ []((Calculated /\ ~data.hasNoBank) =>
          results.presentValueEbucks = ReportedReward(data))
  /\ [][(/\ servedBy' = servedBy
          /\ \/ data' = [data EXCEPT !.hasInsurance = TRUE]
             \/ data' = [data EXCEPT !.hasFinancing = TRUE])
           => results'.presentValueEbucks >= results.presentValueEbucks]_vars

\* a banked request with insurance and without financing, rewarded more than
\* without insurance and less than with financing too
RewardRateIsBasePlusAddOns_witness ==
  /\ Calculated
  /\ ~data.hasNoBank
  /\ data.hasInsurance
  /\ ~data.hasFinancing
  /\ results.presentValueEbucks > ReportedReward([data EXCEPT !.hasInsurance = FALSE])
  /\ results.presentValueEbucks < ReportedReward([data EXCEPT !.hasFinancing = TRUE])
  /\ ReportedReward([data EXCEPT !.hasInsurance = FALSE]) > 0

\* the server and calculateSavings agree on the carbon tax and the emissions
OfflineAgreesOnCarbonTaxAndEmissions ==
  Calculated =>
    /\ ServerResponse(data).carbonTaxSavings = LocalResults(data).carbonTaxSavings
    /\ ServerResponse(data).co2Emissions = LocalResults(data).co2Emissions

\* C24: for every well-formed input calculateSavings returns the same result
\* record as the server's /calculate handler.
OfflineEqualsServer ==
  Calculated => ServerResponse(data) = LocalResults(data)

\* const standard5YearUpfront = calculateStandardUpfrontBenefits()
standard5YearUpfront(d, res) ==
  App_calculateStandardUpfrontBenefits(d.distance, d.fuelType, res)

\* a step that changes one of the given fields of the inputs, and nothing else
\* of them, between two calculations served alike
ChangesOneOf(fields) ==
  /\ Calculated
  /\ servedBy' = servedBy
  /\ data.fuelType \in {"diesel", "petrol95", "petrol93"}
  /\ \/ "hasNoBank" \in fields
        /\ data' = [data EXCEPT !.hasNoBank = ~data.hasNoBank]
     \/ "ebucksLevel" \in fields
        /\ \E level \in EbucksLevels : data' = [data EXCEPT !.ebucksLevel = level]
     \/ "hasInsurance" \in fields
        /\ data' = [data EXCEPT !.hasInsurance = ~data.hasInsurance]
     \/ "hasFinancing" \in fields
        /\ data' = [data EXCEPT !.hasFinancing = ~data.hasFinancing]

\* the displayed standard benefits do not change with the level or with the
\* two add-on flags
StandardUpfrontIgnoresLevelAndAddOns ==
  [][ChangesOneOf({"ebucksLevel", "hasInsurance", "hasFinancing"})
       => standard5YearUpfront(data', results') = standard5YearUpfront(data, results)]_vars

\* C27: for fixed distance and fuel type the standard 5-year upfront benefits
\* the UI displays do not change when hasNoBank, ebucksLevel, hasInsurance or
\* hasFinancing change.
StandardUpfrontIsFixedReference ==
  [][ChangesOneOf({"hasNoBank", "ebucksLevel", "hasInsurance", "hasFinancing"})
       => standard5YearUpfront(data', results') = standard5YearUpfront(data, results)]_vars

\* the reported CO2 savings of a calculation over at least minDistance are
\* above zero
CO2SavingsArePositive(minDistance) ==
  (Calculated /\ data.distance >= minDistance) =>
    /\ results.co2Emissions.monthlySavings > 0
    /\ results.co2Emissions.yearlySavings > 0

\* C29 (as stated): for every fuel type, every distance > 0 and both values
\* of hasSolar, co2Emissions.monthlySavings and co2Emissions.yearlySavings
\* are strictly positive.
CO2SavingsArePositiveForEveryDistance == CO2SavingsArePositive(1)

\* C29 (amended): the same for every distance of at least 1 km, whatever the
\* sign of the cost savings.  Below 0.28 km the smallest monthly saving,
\* 0.0179 kg per km for diesel against the grid, rounds to 0.00.
CO2SavingsArePositiveFromOneKm == CO2SavingsArePositive(Unit)

\* a diesel calculation on the grid over half the initial distance, the case
\* with the smallest saving per km, with both savings reported above zero
CO2SavingsArePositiveFromOneKm_witness ==
  /\ Calculated
  /\ data.fuelType = "diesel" /\ ~data.hasSolar /\ data.distance = DistanceStep
  /\ results.co2Emissions.monthlySavings > 0
  /\ results.co2Emissions.yearlySavings > results.co2Emissions.monthlySavings

(***************************************************************************)
(* Properties of the present-value primitives (specification               *)
(* SpecPrimitives).                                                        *)
(***************************************************************************)
\* For growth = discount = r the annuity is cf * n / (1 + r), and its slope in
\* the discount rate is cf * n * (n + 1) / (2 * (1 + r)^2) in size: at most
\* 2 * cf * n^2 for every rate of the model.  Moving the discount rate by
\* Epsilon therefore moves a continuous annuity by at most this much.
ContinuityTolerance(c) ==
  MulDiv(2 * c.cashFlow * c.periods * c.periods, Epsilon, RateUnit)

\* C7: with growth rate = discount rate = r, the value of the degenerate
\* branch is the limit of the general branch: it is within the continuity
\* tolerance of the general branch's value at discount rate r + Epsilon.
DegenerateBranchIsContinuous ==
  (/\ {"closedForm", "nearby"} \subseteq evaluated
   /\ call.growthRate = call.discountRate)
    => Abs(closedForm - nearby) <= ContinuityTolerance(call)

\* C8: in both branches presentValueOfGrowingAnnuity(cashFlow, g, r, n) is the
\* loop sum over k = 1..n of presentValue(cashFlow * (1+g)^(k-1), r, k), to
\* within 0.01.
ClosedFormIsLoopSum ==
  {"closedForm", "loopSum"} \subseteq evaluated
    => Abs(closedForm - loopSum) <= CentStep

\* C8 (the general branch): the same, for growth rate # discount rate.
GeneralBranchIsLoopSum ==
  (/\ {"closedForm", "loopSum"} \subseteq evaluated
   /\ call.growthRate # call.discountRate)
    => Abs(closedForm - loopSum) <= CentStep

\* C15: the carbon-tax lookup returns a year's own rate for every year of the
\* table, and the rate of the table's last year (2032: 495) for every later
\* year; it never returns no rate.
CarbonTaxLookupForwardFills ==
  "lookupRate" \in evaluated =>
    /\ lookupRate > 0
    /\ lookupYear \in 2025..2032 => lookupRate = CARBON_TAX[lookupYear]
    /\ lookupYear > 2032 => lookupRate = 495

\* a lookup two years after the table's last year
CarbonTaxLookupForwardFills_witness ==
  /\ "lookupRate" \in evaluated
  /\ lookupYear = 2034
  /\ lookupRate = CARBON_TAX[2032]

(***************************************************************************)
(* Properties of the server's routes (specification SpecRequests).         *)
(***************************************************************************)
CalculateHandled == request.path = "/calculate" /\ reply.handled

\* a body the handler does not see (req.body unset) is answered with the
\* error field and the zeroed result
AbsentBodyGivesZeroedError ==
  (CalculateHandled /\ ~request.hasBody) =>
    /\ reply.status = 400
    /\ reply.error
    /\ reply.nan = {}
    /\ reply.result = ZeroResults

\* C18: whenever the body of a /calculate request is absent, or distance or
\* ebucksLevel is missing or not numeric, the response carries an error field
\* and every numeric field of the result is 0; no field is NaN.
MalformedInputGivesZeroedError ==
  (CalculateHandled /\ (~request.hasBody \/ request.notNumbers # {})) =>
    /\ reply.answered
    /\ reply.error
    /\ reply.nan = {}
    /\ reply.result = ZeroResults

ScrapeHandled == request.path = "/scrape-vehicle" /\ reply.handled

\* the fallback record: a price and an efficiency above 0, a fuel type, and
\* the flag of an estimate
IsFallbackRecord(record) ==
  /\ record.price > 0
  /\ record.fuelEfficiency > 0
  /\ record.fuelType \in {"Electric", "Petrol"}
  /\ record.isMockData

\* a failed fetch for a url that is a string is answered with the fallback
\* record
StringUrlFailureGivesFallback ==
  (ScrapeHandled /\ request.url.type = "string" /\ fetched.outcome # "ok") =>
    /\ reply.answered
    /\ reply.status = 200
    /\ IsFallbackRecord(reply.record)

\* C19: every /scrape-vehicle request that carries a url is answered with a
\* record, and when the fetch failed (network error, timeout, status other
\* than 200, exception while parsing) the record is the fallback: price > 0,
\* fuelEfficiency > 0, a fuelType, isMockData = true.
ScrapeVehicleAlwaysAnswers ==
  (ScrapeHandled /\ request.url.type # "undefined") =>
    /\ reply.answered
    /\ reply.status = 200
    /\ reply.record.price > 0
    /\ fetched.outcome # "ok" => IsFallbackRecord(reply.record)

PaymentHandled == request.path = "/compute-payment" /\ reply.handled

\* every computeMonthlyPayment call of the two tabs passes an annual rate
\* other than 0 and a term of at least 12 months
UiPaymentCallsAreSafe ==
  \A c \in UiPaymentCalls : MonthlyRate(c.annualRate) # 0 /\ c.termMonths >= 12

\* a principal, annualRate or termMonths that is missing or the number 0 is
\* answered 400 without computing
MissingOrZeroNumberIsRejected ==
  (/\ PaymentHandled
   /\ \E v \in {request.principal, request.annualRate, request.termMonths} :
        v.type = "undefined" \/ (v.type = "number" /\ v.value = 0)) =>
    reply.status = 400 /\ ~reply.evaluated

\* C22: the amortization formula is never evaluated with monthlyRate = 0 or
\* termMonths = 0: /compute-payment answers 400 without computing when
\* principal, annualRate or termMonths is missing or zero, and every call from
\* the UI passes a non-zero rate and a term of at least 12 months.
PaymentFormulaIsGuarded ==
  /\ UiPaymentCallsAreSafe
  /\ (PaymentHandled /\ reply.evaluated) =>
       reply.monthlyRate # 0 /\ reply.termMonths # 0
  /\ (/\ PaymentHandled
      /\ \E v \in {request.principal, request.annualRate, request.termMonths} :
           v.type = "undefined" \/ v.value = 0) =>
       reply.status = 400 /\ ~reply.evaluated

\* a listing was fetched and its price or its consumption could not be read
DefaultSubstituted ==
  /\ ScrapeHandled
  /\ request.url.type = "string"
  /\ fetched.outcome = "ok"
  /\ fetched.page.price = 0 \/ fetched.page.consumption = NoConsumption

\* the record scraped from a fetched listing never carries the flag, whether
\* or not a default was substituted
ScrapedRecordIsNeverFlagged ==
  (ScrapeHandled /\ request.url.type = "string" /\ fetched.outcome = "ok") =>
    /\ reply.answered
    /\ ~reply.record.isMockData
    /\ fetched.page.price = 0 => reply.record.price \in {750000 * Unit, 350000 * Unit}
    /\ fetched.page.consumption = NoConsumption =>
         reply.record.fuelEfficiency \in {18 * Unit, 7 * Unit, 8500}

\* C30: every record of scrapeCarDetails whose price or fuelEfficiency is a
\* substituted default is flagged isMockData = true, as the record returned
\* after a failed fetch is; a record without the flag holds only the values
\* read from the page.
SubstitutedDefaultsAreFlagged ==
  /\ DefaultSubstituted => reply.record.isMockData
  /\ (/\ ScrapeHandled
      /\ request.url.type = "string"
      /\ ~reply.record.isMockData)
       => /\ fetched.outcome = "ok"
          /\ reply.record.price = fetched.page.price
          /\ reply.record.fuelEfficiency = fetched.page.consumption

(***************************************************************************)
(* Properties of the overlapping invocations (specification SpecOverlap).  *)
(***************************************************************************)
\* invocation i finishes in this step
Finishes(i) ==
  /\ i \in DOMAIN invocations
  /\ invocations[i].pc = "fetching"
  /\ invocations'[i].pc = "finished"

\* C23: when the API call of an invocation fails (network error, status not
\* ok, error field), results become calculateSavings of the invocation's
\* inputs and isOfflineMode true; when it succeeds, results become the API's
\* response and isOfflineMode false; results are not zeroed and no error
\* message is set, as the local calculation does not throw.
FailedCallFallsBackToLocal ==
  [][\A i \in 1..MaxInvocations :
       Finishes(i) =>
         /\ ~error'
         /\ IF invocations'[i].outcome = "ok"
            THEN /\ results' = ServerResponse(invocations[i].inputData)
                 /\ ~isOfflineMode'
            ELSE /\ invocations'[i].outcome
                      \in {"networkError", "httpError", "errorField"}
                 /\ results' = LocalResults(invocations[i].inputData)
                 /\ isOfflineMode']_vars

\* a failed call answered by the local calculation, whose fuel savings are
\* not the server's
FailedCallFallsBackToLocal_witness ==
  /\ Len(invocations) = 1
  /\ invocations[1].outcome = "httpError"
  /\ isOfflineMode
  /\ results = LocalResults(data)
  /\ results # ServerResponse(data)
  /\ results # ZeroResults

AllFinished ==
  /\ invocations # << >>
  /\ \A i \in DOMAIN invocations : invocations[i].pc = "finished"

LastInvocation == invocations[Len(invocations)]

\* C25: once every overlapping invocation has completed, results and
\* isOfflineMode are those of the invocation started last, computed from the
\* current inputs.
LastStartedInvocationWins ==
  AllFinished =>
    /\ LastInvocation.inputData = data
    /\ results = StoredResults(data, LastInvocation.outcome)
    /\ isOfflineMode = (LastInvocation.outcome # "ok")

\* C26: isCalculating is true exactly while an invocation has started and not
\* finished.
CalculatingWhilePending == isCalculating = (Pending # {})

(***************************************************************************)
(* Properties of the comparison tab (specification SpecComparison).        *)
(***************************************************************************)
\* a step in which handleCompare stored new results; the inputs it read are
\* the unprimed ones
ComparedStep == comparison'.results # comparison.results

\* what computeFuelCost gives for the electric car of the new results on the
\* grid, and a tenth of it
GridChargingCost ==
  computeFuelCost(comparison'.results.electric, comparison.monthlyDistance, FALSE).cost

TenthOfGridChargingCost == MulDiv(GridChargingCost, 1, 10)

SolarElectricComparison ==
  /\ ComparedStep
  /\ comparison.hasSolar
  /\ IncludesElectric(comparison'.results.electric.fuelType)

\* the main calculator charges a tenth of the grid cost for solar
MainCalculatorSolarCostIsTenthOfGrid ==
  calculateMonthlyChargingCost(comparison.monthlyDistance, TRUE, "ev",
                               DefaultPhevBatteryCapacity)
    = MulDiv(calculateMonthlyChargingCost(comparison.monthlyDistance, FALSE, "ev",
                                          DefaultPhevBatteryCapacity), 1, 10)

\* the comparison tab charges nothing for solar: the monthly cost is 0, the
\* cumulative electric series is all zeros, and the cumulative savings are
\* the cumulative petrol costs
SolarChargingCostIsZero ==
  [][SolarElectricComparison =>
       LET r == comparison'.results
       IN  /\ GridChargingCost > 0
           /\ r.electric.fuelCost = 0
           /\ \A m \in DOMAIN r.cumulativeData.electricCosts :
                 /\ r.cumulativeData.electricCosts[m] = 0
                 /\ r.cumulativeData.savings[m] = r.cumulativeData.petrolCosts[m]]_vars

\* C28: for an electric vehicle with solar selected, the comparison tab's
\* monthly charging cost is 10% of the grid charging cost for the same
\* energy, as in the main calculator, and the cumulative electric cost
\* series is built from that cost
SolarChargingCostIsTenthOfGrid ==
  [][SolarElectricComparison =>
       LET r == comparison'.results
           totalPeriod == Len(r.cumulativeData.electricCosts)
           series == generateCumulativeFuelCost(TenthOfGridChargingCost, totalPeriod,
                                                r.electric.fuelType)
       IN  /\ r.electric.fuelCost = ToFixed2(TenthOfGridChargingCost)
           /\ \A m \in 1..totalPeriod :
                 r.cumulativeData.electricCosts[m] = ToFixed2(series[m])]_vars

=============================================================================
